---------------------------- MODULE Spec2Model ----------------------------
(***************************************************************************)
(* A model of instaloader/structures.py: the identifier codec              *)
(* (shortcode_to_mediaid, mediaid_to_shortcode) and the lazy entity views  *)
(* Post, Profile, StoryItem and Story.                                     *)
(*                                                                         *)
(* Conventions.                                                            *)
(*  - A short code is a sequence of character codes; a character of the    *)
(*    base64url alphabet A-Z a-z 0-9 - _ is its index 0..63 there, and     *)
(*    the blank is SpaceChar.                                              *)
(*  - A Python int (unbounded, non-negative) is the sequence of its bytes, *)
(*    most significant first, without leading zero bytes; <<>> is 0.       *)
(*  - A decimal text (str(int)) is the sequence of its decimal digits.     *)
(*  - A Python dict is a function from its keys (strings) to values.       *)
(*  - The result of a call is a record [tag |-> "ok", val |-> v] or        *)
(*    [tag |-> <the exception raised>]; NoResult is "not called yet".      *)
(***************************************************************************)
EXTENDS Integers, Sequences, FiniteSets, TLC

VARIABLES
    \* ---- identifier codec
    code,       \* the short code handed to shortcode_to_mediaid
    mediaid,    \* the integer handed to mediaid_to_shortcode
    sm,         \* result of shortcode_to_mediaid(code)
    ms,         \* result of mediaid_to_shortcode(mediaid)
    rt,         \* result of mediaid_to_shortcode(shortcode_to_mediaid(code))
    inv,        \* result of shortcode_to_mediaid(mediaid_to_shortcode(mediaid))
    \* ---- entities
    built,        \* what a Post constructor call gave: None, or the Post
    posts,        \* the Post instances: posts[1] is used, posts[2] is compared to
    postFetches,  \* get_json('p/<shortcode>/') calls made by posts[1] so far:
                  \* those issued, and those of them answered with a page
    prof,         \* the Profile instance, or None before it is built
    profFetches,  \* get_json('<username>/') calls made by prof so far:
                  \* those issued, and those of them answered with a page
    stories,      \* the Story instances: stories[1] and stories[2]
    items,        \* the StoryItems: those that stories[1].get_items() produced, in
                  \* order, whose owner_profile is a reference into profiles; or
                  \* the one constructed directly, which holds its owner itself
    profiles,     \* the Profile instances made for stories[1] and its items, in
                  \* the order of their construction; a reference is an index
    last          \* the last operation: its name, inputs, result and calls

codecVars == <<code, mediaid, sm, ms, rt, inv>>
ctorVars == <<built>>
postVars == <<posts, postFetches>>
profVars == <<prof, profFetches>>
storyVars == <<stories, items, profiles>>
vars == <<code, mediaid, sm, ms, rt, inv, built, posts, postFetches, prof, profFetches,
          stories, items, profiles, last>>

\* ------------------------------------------------------------------ results
NoResult == [tag |-> "none"]
Ok(v) == [tag |-> "ok", val |-> v]
Raise(e) == [tag |-> e]
IsOk(r) == r.tag = "ok"

\* ------------------------------------------------------------------ helpers
RECURSIVE Repeat(_, _)
Repeat(c, n) == IF n <= 0 THEN <<>> ELSE <<c>> \o Repeat(c, n - 1)

SeqsUpTo(S, n) == UNION {[1..k -> S] : k \in 0..n}

\* ============================ IDENTIFIER CODEC ============================
\* 'A', the character base64 gives the sextet 0: the code's padding character
PadChar == 0
\* ' ', the stand-in for 'A' while the leading ones are stripped
SpaceChar == 64
\* shortcode_to_mediaid pads the code to this many characters
PaddedLen == 12
\* the longest code shortcode_to_mediaid accepts
MaxCodeLen == 11
\* mediaid.to_bytes(9, 'big')
IdBytes == 9
\* the widest integer mediaid_to_shortcode accepts, in bits
MaxIdBits == 64

\* base64 decoding of one group of four characters into three bytes
B64DecodeGroup(a, b, c, d) ==
    LET v == ((a * 64 + b) * 64 + c) * 64 + d
    IN  <<v \div 65536, (v \div 256) % 256, v % 256>>

\* b64decode(code, b'-_') of a text whose length is a multiple of four
RECURSIVE B64Decode(_)
B64Decode(s) ==
    IF Len(s) < 4 THEN <<>>
    ELSE B64DecodeGroup(s[1], s[2], s[3], s[4]) \o B64Decode(SubSeq(s, 5, Len(s)))

\* base64 encoding of one group of three bytes into four characters
B64EncodeGroup(x, y, z) ==
    LET v == (x * 256 + y) * 256 + z
    IN  <<v \div 262144, (v \div 4096) % 64, (v \div 64) % 64, v % 64>>

\* b64encode(bytes, b'-_') of a byte string whose length is a multiple of three
RECURSIVE B64Encode(_)
B64Encode(bs) ==
    IF Len(bs) < 3 THEN <<>>
    ELSE B64EncodeGroup(bs[1], bs[2], bs[3]) \o B64Encode(SubSeq(bs, 4, Len(bs)))

\* int.from_bytes(bs, 'big'): the leading zero bytes carry no value
RECURSIVE IntFromBytes(_)
IntFromBytes(bs) ==
    IF Len(bs) = 0 THEN <<>>
    ELSE IF bs[1] = 0 THEN IntFromBytes(Tail(bs))
    ELSE bs

\* n.to_bytes(len, 'big'), for an n that fits
IntToBytes(n, len) == Repeat(0, len - Len(n)) \o n

\* the number of bits of one byte's value
RECURSIVE ByteBits(_)
ByteBits(b) == IF b = 0 THEN 0 ELSE 1 + ByteBits(b \div 2)

\* a slip: the width is taken as whole bytes
BitLength_bytes(n) == IF Len(n) = 0 THEN 0 ELSE 8 * (Len(n) - 1)

\* n.bit_length()
BitLength(n) == IF Len(n) = 0 THEN 0 ELSE 8 * (Len(n) - 1) + ByteBits(n[1])

\* s.replace(old, new) for single characters
StrReplace(s, old, new) == [i \in 1..Len(s) |-> IF s[i] = old THEN new ELSE s[i]]

\* s.lstrip(): the leading blanks are removed
RECURSIVE LStrip(_)
LStrip(s) ==
    IF Len(s) = 0 THEN s
    ELSE IF s[1] = SpaceChar THEN LStrip(Tail(s))
    ELSE s

shortcode_to_mediaid(c) ==
    IF Len(c) > MaxCodeLen THEN Raise("InvalidArgumentException")
    ELSE Ok(IntFromBytes(B64Decode(Repeat(PadChar, PaddedLen - Len(c)) \o c)))

\* a slip: the blanks left inside the code are not turned back into 'A'
mediaid_to_shortcode_norestore(m) ==
    IF BitLength(m) > MaxIdBits THEN Raise("InvalidArgumentException")
    ELSE Ok(LStrip(StrReplace(B64Encode(IntToBytes(m, IdBytes)), PadChar, SpaceChar)))

\* s.strip(): the blanks at both ends are removed
RECURSIVE Strip(_)
Strip(s) ==
    IF Len(s) = 0 THEN s
    ELSE IF s[Len(s)] = SpaceChar THEN Strip(SubSeq(s, 1, Len(s) - 1))
    ELSE LStrip(s)

\* a slip: the blanks are stripped at both ends of the code
mediaid_to_shortcode_strip(m) ==
    IF BitLength(m) > MaxIdBits THEN Raise("InvalidArgumentException")
    ELSE Ok(StrReplace(Strip(StrReplace(B64Encode(IntToBytes(m, IdBytes)),
                                        PadChar, SpaceChar)),
                       SpaceChar, PadChar))

mediaid_to_shortcode(m) ==
    IF BitLength(m) > MaxIdBits THEN Raise("InvalidArgumentException")
    ELSE Ok(StrReplace(LStrip(StrReplace(B64Encode(IntToBytes(m, IdBytes)),
                                         PadChar, SpaceChar)),
                       SpaceChar, PadChar))

\* ---- the codec's inputs
\* 'A', 'B', 'P', 'Q', '_': the padding character, the smallest digit, the two
\* leading digits between which an 11-character code passes 64 bits, the largest
CodeChars == {0, 1, 15, 16, 63}
FillChars == {0, 63}
MaxHead == 2
MaxFill == 10
MaxTail == 1
Codes ==
    {h \o Repeat(f, k) \o t :
        h \in SeqsUpTo(CodeChars, MaxHead), f \in FillChars, k \in 0..MaxFill,
        t \in SeqsUpTo(CodeChars, MaxTail)}

IdHeads == {<<>>, <<1>>, <<2>>, <<128>>, <<255>>, <<1, 0>>}
IdFillBytes == {0, 255}
MaxIdFill == 9
MediaIds ==
    {IntFromBytes(h \o Repeat(f, k)) :
        h \in IdHeads, f \in IdFillBytes, k \in 0..MaxIdFill}

\* the parts of the state a specification does not use stay as they are here
NoFetches == [issued |-> 0, answered |-> 0]
\* the counters after n more calls that resp answered
Fetched(f, n, resp) ==
    [issued |-> f.issued + n,
     answered |-> f.answered + (IF resp.tag = "ok" THEN n ELSE 0)]

EntitiesIdle ==
    /\ built = <<>>
    /\ posts = <<>>
    /\ postFetches = NoFetches
    /\ prof = <<>>
    /\ profFetches = NoFetches
    /\ stories = <<>>
    /\ items = <<>>
    /\ profiles = <<>>
    /\ last = <<>>

CodecIdle ==
    /\ code = <<>>
    /\ mediaid = <<>>
    /\ sm = NoResult
    /\ ms = NoResult
    /\ rt = NoResult
    /\ inv = NoResult

\* "", "B", and a code of twelve characters
ProbeCodes == {<<>>, <<1>>, Repeat(1, MaxCodeLen + 1)}
\* 0, 1, and 2^64
ProbeIds == {<<>>, <<1>>, <<1>> \o Repeat(0, 8)}

CodecInit ==
    /\ EntitiesIdle
    /\ code \in Codes
    /\ mediaid \in MediaIds \cup ProbeIds
    /\ code \in ProbeCodes \/ mediaid \in ProbeIds
    /\ sm = NoResult
    /\ ms = NoResult
    /\ rt = NoResult
    /\ inv = NoResult

CallShortcodeToMediaid ==
    /\ sm = NoResult
    /\ sm' = shortcode_to_mediaid(code)
    /\ UNCHANGED <<code, mediaid, ms, rt, inv, built, posts, postFetches, prof, profFetches,
                 stories, items, profiles, last>>

CallMediaidToShortcode ==
    /\ ms = NoResult
    /\ ms' = mediaid_to_shortcode(mediaid)
    /\ UNCHANGED <<code, mediaid, sm, rt, inv, built, posts, postFetches, prof, profFetches,
                 stories, items, profiles, last>>

\* mediaid_to_shortcode(shortcode_to_mediaid(code)): an error of the inner call
\* propagates
CallRoundTrip ==
    /\ sm # NoResult
    /\ rt = NoResult
    /\ rt' = IF IsOk(sm) THEN mediaid_to_shortcode(sm.val) ELSE sm
    /\ UNCHANGED <<code, mediaid, sm, ms, inv, built, posts, postFetches, prof, profFetches,
                 stories, items, profiles, last>>

\* shortcode_to_mediaid(mediaid_to_shortcode(mediaid)): an error of the inner
\* call propagates
CallInverseRoundTrip ==
    /\ ms # NoResult
    /\ inv = NoResult
    /\ inv' = IF IsOk(ms) THEN shortcode_to_mediaid(ms.val) ELSE ms
    /\ UNCHANGED <<code, mediaid, sm, ms, rt, built, posts, postFetches, prof,
                 profFetches, stories, items, profiles, last>>

CodecNext ==
    \/ CallShortcodeToMediaid
    \/ CallMediaidToShortcode
    \/ CallRoundTrip
    \/ CallInverseRoundTrip

SpecCodec == CodecInit /\ [][CodecNext]_vars

\* =============================== PYTHON VALUES ============================
\* None. Dicts, None and the objects are all functions, which TLC compares freely
PyNone == [py_none |-> TRUE]
\* {}
EmptyDict == <<>>
\* key in d
Has(d, k) == k \in DOMAIN d
\* bool(v) of a dict or None: None and the empty dict are false
Truthy(v) == v # PyNone /\ DOMAIN v # {}
\* bool(o) of an object or None: an instance of a class without __bool__ is true
TruthyObj(o) == o # PyNone

\* d = start; for key in keys: d = d[key]. A missing key raises KeyError, and
\* subscripting None raises TypeError
RECURSIVE Walk(_, _)
Walk(d, keys) ==
    IF Len(keys) = 0 THEN Ok(d)
    ELSE IF d = PyNone THEN Raise("TypeError")
    ELSE IF Has(d, Head(keys)) THEN Walk(d[Head(keys)], Tail(keys))
    ELSE Raise("KeyError")

\* An integer or a decimal text, as JSON may carry an id: [int |-> n] or
\* [str |-> <<digits>>]
PyInt(n) == [int |-> n]
PyStr(ds) == [str |-> ds]

\* the value of a decimal text
RECURSIVE ParseDec(_)
ParseDec(ds) ==
    IF Len(ds) = 0 THEN 0
    ELSE ParseDec(SubSeq(ds, 1, Len(ds) - 1)) * 10 + ds[Len(ds)]

\* int(v)
ToInt(v) == IF Has(v, "int") THEN v.int ELSE ParseDec(v.str)

\* str(n): the decimal digits of n, without leading zeros
RECURSIVE Str(_)
Str(n) == IF n < 10 THEN <<n>> ELSE Str(n \div 10) \o <<n % 10>>

\* the bytes of a small non-negative integer: the Python int of the same value
RECURSIVE NatToInt(_)
NatToInt(n) == IF n = 0 THEN <<>> ELSE NatToInt(n \div 256) \o <<n % 256>>

\* s.lower() of the user names the model uses
Lower(s) ==
    CASE s = "Alice" -> "alice"
      [] s = "BOB" -> "bob"
      [] OTHER -> s

\* ============================== TRANSPORT ================================
\* What InstaloaderContext.get_json and graphql_query may answer: a parsed JSON
\* body, Ok(json), or an exception, Raise(e).
TransportErrors == {Raise("QueryReturnedNotFoundException"), Raise("ConnectionException")}
\* the exceptions that derive from InstaloaderException
InstaloaderExceptions ==
    {"QueryReturnedNotFoundException", "ConnectionException", "ProfileNotExistsException",
     "ProfileHasNoPicsException", "LoginRequiredException", "InvalidArgumentException"}

\* ================================= POST ==================================
\* a slip: the id is not asked for
PostInit_noid(node, owner_profile) ==
    IF ~(Has(node, "shortcode") \/ Has(node, "code")) THEN Raise("AssertionError")
    ELSE IF ~Has(node, "owner") THEN Raise("AssertionError")
    ELSE IF ~(Has(node, "date") \/ Has(node, "taken_at_timestamp")) THEN Raise("AssertionError")
    ELSE IF ~(Has(node, "display_url") \/ Has(node, "display_src")) THEN Raise("AssertionError")
    ELSE IF ~Has(node, "is_video") THEN Raise("AssertionError")
    ELSE Ok([node |-> node, owner_profile |-> owner_profile, full_metadata_dict |-> PyNone])

\* Post.__init__: the assert statements (which the interpreter runs unless it is
\* started with -O) come before any field is set
PostInit(node, owner_profile) ==
    IF ~(Has(node, "shortcode") \/ Has(node, "code")) THEN Raise("AssertionError")
    ELSE IF ~Has(node, "id") THEN Raise("AssertionError")
    ELSE IF ~Has(node, "owner") THEN Raise("AssertionError")
    ELSE IF ~(Has(node, "date") \/ Has(node, "taken_at_timestamp")) THEN Raise("AssertionError")
    ELSE IF ~(Has(node, "display_url") \/ Has(node, "display_src")) THEN Raise("AssertionError")
    ELSE IF ~Has(node, "is_video") THEN Raise("AssertionError")
    ELSE Ok([node |-> node, owner_profile |-> owner_profile, full_metadata_dict |-> PyNone])

\* Post.shortcode
PostShortcode(p) == IF Has(p.node, "shortcode") THEN p.node.shortcode ELSE p.node.code

\* a slip: the records are compared
PostEq_nodes(p, q) == p.node = q.node

\* Post.__eq__ between two Posts
PostEq(p, q) == PostShortcode(p) = PostShortcode(q)

\* hash(str) of a short code: equal texts hash alike, different texts may collide
StrHash(s) == IF Len(s) = 0 THEN 0 ELSE (s[1] + Len(s)) % 2

\* Post.__hash__
PostHash(p) == StrHash(PostShortcode(p))

\* Post._full_metadata. resp is what get_json('p/<shortcode>/') answers if it is
\* asked. Gives the Post afterwards, the result, and the number of get_json calls.
PostFullMetadata(p, resp) ==
    IF ~Truthy(p.full_metadata_dict)
    THEN IF ~IsOk(resp) THEN [post |-> p, res |-> resp, fetched |-> 1]
         ELSE IF Has(resp.val, "graphql")
         THEN [post |-> [p EXCEPT !.full_metadata_dict = resp.val.graphql.shortcode_media],
               res |-> Ok(resp.val.graphql.shortcode_media), fetched |-> 1]
         ELSE IF Has(resp.val, "media")
         THEN [post |-> [p EXCEPT !.full_metadata_dict = resp.val.media],
               res |-> Ok(resp.val.media), fetched |-> 1]
         ELSE [post |-> p, res |-> Raise("KeyError"), fetched |-> 1]
    ELSE [post |-> p, res |-> Ok(p.full_metadata_dict), fetched |-> 0]

\* a slip: only the partial record is looked at
PostField_partial(p, keys, resp) == [post |-> p, res |-> Walk(p.node, keys), fetched |-> 0]

\* Post._field(*keys)
PostField(p, keys, resp) ==
    LET Full(f) ==
            IF ~IsOk(f.res) THEN f
            ELSE [post |-> f.post, res |-> Walk(f.res.val, keys), fetched |-> f.fetched]
        Of(w) ==
            IF w.tag # "KeyError" THEN [post |-> p, res |-> w, fetched |-> 0]
            ELSE Full(PostFullMetadata(p, resp))
    IN  Of(Walk(p.node, keys))

\* Post.from_shortcode
PostFromShortcode(shortcode, resp) ==
    LET Full(f) ==
            IF ~IsOk(f.res) THEN [res |-> f.res, fetched |-> f.fetched]
            ELSE [res |-> Ok([f.post EXCEPT !.node = f.res.val]), fetched |-> f.fetched]
        Of(c) ==
            IF ~IsOk(c) THEN [res |-> c, fetched |-> 0]
            ELSE Full(PostFullMetadata(c.val, resp))
    IN  Of(PostInit([shortcode |-> shortcode], PyNone))

\* Post.from_mediaid
PostFromMediaid(m, resp) ==
    LET Of(sc) ==
            IF ~IsOk(sc) THEN [res |-> sc, fetched |-> 0]
            ELSE PostFromShortcode(sc.val, resp)
    IN  Of(mediaid_to_shortcode(m))

\* a slip: the edges at hand are never used, the consumer is always asked
PostEdgeList_paged(p, conn, nodes, resp) ==
    LET Of(c) ==
            IF ~IsOk(c.res) THEN [post |-> c.post, res |-> c.res, fetched |-> c.fetched,
                                  node_list_calls |-> 0]
            ELSE IF Has(c.res.val, "int") /\ c.res.val.int = 0
            THEN [post |-> c.post, res |-> Ok(<<>>), fetched |-> c.fetched,
                  node_list_calls |-> 0]
            ELSE [post |-> c.post, res |-> nodes, fetched |-> c.fetched, node_list_calls |-> 1]
    IN  Of(PostField(p, <<conn, "count">>, resp))

\* The body shared by Post.get_comments and Post.get_likes, consumed to its end:
\* conn is the connection's name, nodes is what graphql_node_list yields if it
\* is called. Gives the Post afterwards, the result (the sequence yielded), and
\* the number of get_json('p/<shortcode>/') and of graphql_node_list calls.
PostEdgeList(p, conn, nodes, resp) ==
    LET out(q, res, fetched, called) ==
            [post |-> q, res |-> res, fetched |-> fetched, node_list_calls |-> called]
        \* self.comments == len(comment_edges)
        Again(e, c, fetched) ==
            IF ~IsOk(c.res) THEN out(c.post, c.res, fetched + c.fetched, 0)
            ELSE IF Has(c.res.val, "int") /\ c.res.val.int = Len(e.res.val)
            THEN out(c.post, Ok([i \in 1..Len(e.res.val) |-> e.res.val[i].node]),
                     fetched + c.fetched, 0)
            ELSE out(c.post, nodes, fetched + c.fetched, 1)
        \* comment_edges = self._field(conn, 'edges')
        Edges(e, fetched) ==
            IF ~IsOk(e.res) THEN out(e.post, e.res, fetched + e.fetched, 0)
            ELSE Again(e, PostField(e.post, <<conn, "count">>, resp), fetched + e.fetched)
        \* self.comments == 0
        Of(c) ==
            IF ~IsOk(c.res) THEN out(c.post, c.res, c.fetched, 0)
            ELSE IF Has(c.res.val, "int") /\ c.res.val.int = 0
            THEN out(c.post, Ok(<<>>), c.fetched, 0)
            ELSE Edges(PostField(c.post, <<conn, "edges">>, resp), c.fetched)
    IN  Of(PostField(p, <<conn, "count">>, resp))

\* Post.get_comments
PostGetComments(p, nodes, resp) == PostEdgeList(p, "edge_media_to_comment", nodes, resp)

\* Post.get_likes
PostGetLikes(p, nodes, resp) == PostEdgeList(p, "edge_media_preview_like", nodes, resp)

\* a slip: the location reference is returned as it is, without asking for it
PostGetLocation_nofetch(p, loc, resp) ==
    LET Of(f) == [post |-> f.post, res |-> f.res, fetched |-> f.fetched, location_fetches |-> 0]
    IN  Of(PostField(p, <<"location">>, resp))

\* Post.get_location. loc is what get_json('explore/locations/<id>/') answers if
\* it is asked. Gives the Post afterwards, the result, and the number of
\* get_json('p/<shortcode>/') and of location requests.
PostGetLocation(p, loc, resp) ==
    LET out(q, res, fetched, asked) ==
            [post |-> q, res |-> res, fetched |-> fetched, location_fetches |-> asked]
        \* location_json["location"] if "location" in location_json
        \* else location_json['graphql']['location']
        Data(json) ==
            IF Has(json, "location") THEN Ok(json.location)
            ELSE Walk(json, <<"graphql", "location">>)
        Of(f) ==
            IF ~IsOk(f.res) THEN out(f.post, f.res, f.fetched, 0)
            ELSE IF f.res.val = PyNone THEN out(f.post, Ok(PyNone), f.fetched, 0)
            ELSE IF ~Has(f.res.val, "id") THEN out(f.post, Raise("KeyError"), f.fetched, 0)
            ELSE IF ~IsOk(loc) THEN out(f.post, loc, f.fetched, 1)
            ELSE out(f.post, Data(loc.val), f.fetched, 1)
    IN  Of(PostField(p, <<"location">>, resp))

\* ================================ PROFILE ================================
\* Profile.__init__
ProfileInit(node) ==
    IF ~Has(node, "username") THEN Raise("AssertionError")
    ELSE Ok([node |-> node])

\* a slip: the transport's not-found is passed on as it is
ProfileObtainMetadata_raw(pr, resp) ==
    IF ~IsOk(resp) THEN [prof |-> pr, res |-> resp, fetched |-> 1]
    ELSE IF Has(resp.val, "graphql")
    THEN [prof |-> [pr EXCEPT !.node = resp.val.graphql.user], res |-> Ok(PyNone), fetched |-> 1]
    ELSE [prof |-> [pr EXCEPT !.node = resp.val.user], res |-> Ok(PyNone), fetched |-> 1]

\* Profile._obtain_metadata. resp is what get_json('<username>/') answers if it
\* is asked. self.username is read first: through _metadata('username'), which on
\* a record without a username calls _obtain_metadata again, and so on until
\* the interpreter's recursion limit, before any request is made.
ProfileObtainMetadata(pr, resp) ==
    IF ~Has(pr.node, "username")
    THEN [prof |-> pr, res |-> Raise("RecursionError"), fetched |-> 0]
    ELSE IF resp = Raise("QueryReturnedNotFoundException")
    THEN [prof |-> pr, res |-> Raise("ProfileNotExistsException"), fetched |-> 1]
    ELSE IF ~IsOk(resp) THEN [prof |-> pr, res |-> resp, fetched |-> 1]
    ELSE IF Has(resp.val, "graphql")
    THEN [prof |-> [pr EXCEPT !.node = resp.val.graphql.user], res |-> Ok(PyNone), fetched |-> 1]
    ELSE IF Has(resp.val, "user")
    THEN [prof |-> [pr EXCEPT !.node = resp.val.user], res |-> Ok(PyNone), fetched |-> 1]
    ELSE [prof |-> pr, res |-> Raise("KeyError"), fetched |-> 1]

\* Profile._metadata(*keys)
ProfileMetadata(pr, keys, resp) ==
    LET Obtained(o) ==
            IF ~IsOk(o.res) THEN o
            ELSE [prof |-> o.prof, res |-> Walk(o.prof.node, keys), fetched |-> o.fetched]
        Of(w) ==
            IF w.tag # "KeyError" THEN [prof |-> pr, res |-> w, fetched |-> 0]
            ELSE Obtained(ProfileObtainMetadata(pr, resp))
    IN  Of(Walk(pr.node, keys))

\* Profile.userid
ProfileUserid(pr, resp) ==
    LET Of(m) == IF IsOk(m.res) THEN [m EXCEPT !.res = Ok(ToInt(m.res.val))] ELSE m
    IN  Of(ProfileMetadata(pr, <<"id">>, resp))

\* Profile.username
ProfileUsername(pr, resp) ==
    LET Of(m) == IF IsOk(m.res) THEN [m EXCEPT !.res = Ok(Lower(m.res.val))] ELSE m
    IN  Of(ProfileMetadata(pr, <<"username">>, resp))

\* Profile.from_username
ProfileFromUsername(username, resp) ==
    LET Obtained(o) ==
            IF ~IsOk(o.res) THEN [res |-> o.res, fetched |-> o.fetched]
            ELSE [res |-> Ok(o.prof), fetched |-> o.fetched]
        Of(c) ==
            IF ~IsOk(c) THEN [res |-> c, fetched |-> 0]
            ELSE Obtained(ProfileObtainMetadata(c.val, resp))
    IN  Of(ProfileInit([username |-> Lower(username)]))

\* Profile.get_profile_pic_url. info is what get_json('api/v1/users/<id>/info/')
\* answers if it is asked, resp what get_json('<username>/') answers. Gives the
\* Profile afterwards, the result, and the number of get_json('<username>/') calls,
\* of info requests and of context.error calls.
ProfileGetProfilePicUrl(pr, info, resp) ==
    LET Caught(r) == r.tag \in InstaloaderExceptions \cup {"KeyError"}
        out(p, res, fetched, asked, logged) ==
            [prof |-> p, res |-> res, fetched |-> fetched, info_calls |-> asked,
             logged |-> logged]
        \* the except clause: log, then self._metadata("profile_pic_url_hd")
        Standard(m, fetched, asked) == out(m.prof, m.res, fetched + m.fetched, asked, 1)
        Fallback(p, fetched, asked) ==
            Standard(ProfileMetadata(p, <<"profile_pic_url_hd">>, resp), fetched, asked)
        Info(u, w) ==
            IF IsOk(w) THEN out(u.prof, w, u.fetched, 1, 0)
            ELSE IF Caught(w) THEN Fallback(u.prof, u.fetched, 1)
            ELSE out(u.prof, w, u.fetched, 1, 0)
        Of(u) ==
            IF IsOk(u.res)
            THEN Info(u, IF IsOk(info)
                         THEN Walk(info.val, <<"user", "hd_profile_pic_url_info", "url">>)
                         ELSE info)
            ELSE IF Caught(u.res) THEN Fallback(u.prof, u.fetched, 0)
            ELSE out(u.prof, u.res, u.fetched, 0, 0)
    IN  Of(ProfileUserid(pr, resp))

\* context.username: the name the session is logged in with, or None
ViewerNamed(n) == [name |-> n]

\* Profile.get_saved_posts, after the login test: the generator expression over
\* graphql_node_list(hash, {'id': self.userid}, referer with self.username,
\* extractor, self._metadata('edge_saved_media')), consumed to its end. nodes is
\* what the pagination consumer yields if it is called. u is the outcome of the
\* self.username that the login test read.
ProfileSavedList(u, nodes, resp) ==
    LET out(p, res, fetched, called, id, seed) ==
            [prof |-> p, res |-> res, fetched |-> fetched, node_list_calls |-> called,
             id |-> id, seed |-> seed]
        Built(ps) ==
            IF \A i \in 1..Len(ps) : IsOk(ps[i]) THEN Ok([i \in 1..Len(ps) |-> ps[i].val])
            ELSE Raise("AssertionError")
        Listed(sd, id, fetched) ==
            IF ~IsOk(sd.res) THEN out(sd.prof, sd.res, fetched + sd.fetched, 0, PyNone, PyNone)
            ELSE IF ~IsOk(nodes)
            THEN out(sd.prof, nodes, fetched + sd.fetched, 1, id, sd.res.val)
            ELSE out(sd.prof, Built([i \in 1..Len(nodes.val) |-> PostInit(nodes.val[i], PyNone)]),
                     fetched + sd.fetched, 1, id, sd.res.val)
        Referer(n, id, fetched) ==
            IF ~IsOk(n.res) THEN out(n.prof, n.res, fetched + n.fetched, 0, PyNone, PyNone)
            ELSE Listed(ProfileMetadata(n.prof, <<"edge_saved_media">>, resp), id,
                        fetched + n.fetched)
        Id(i) ==
            IF ~IsOk(i.res) THEN out(i.prof, i.res, u.fetched + i.fetched, 0, PyNone, PyNone)
            ELSE Referer(ProfileUsername(i.prof, resp), i.res.val, u.fetched + i.fetched)
    IN  Id(ProfileUserid(u.prof, resp))

\* a slip: the viewer is not looked at
ProfileGetSavedPosts_anyviewer(pr, viewer, nodes, resp) ==
    LET Of(u) ==
            IF ~IsOk(u.res)
            THEN [prof |-> u.prof, res |-> u.res, fetched |-> u.fetched, node_list_calls |-> 0,
                  id |-> PyNone, seed |-> PyNone]
            ELSE ProfileSavedList(u, nodes, resp)
    IN  Of(ProfileUsername(pr, resp))

\* Profile.get_saved_posts, consumed to its end. viewer is context.username.
\* Gives the Profile afterwards, the result (the Posts), the number of
\* get_json('<username>/') calls and of graphql_node_list calls, and the id and
\* the first page the pagination consumer was given.
ProfileGetSavedPosts(pr, viewer, nodes, resp) ==
    LET Of(u) ==
            IF ~IsOk(u.res)
            THEN [prof |-> u.prof, res |-> u.res, fetched |-> u.fetched, node_list_calls |-> 0,
                  id |-> PyNone, seed |-> PyNone]
            ELSE IF ViewerNamed(u.res.val) # viewer
            THEN [prof |-> u.prof, res |-> Raise("LoginRequiredException"),
                  fetched |-> u.fetched, node_list_calls |-> 0, id |-> PyNone, seed |-> PyNone]
            ELSE ProfileSavedList(u, nodes, resp)
    IN  Of(ProfileUsername(pr, resp))

\* The answers the session gives during one operation: whether it is logged in,
\* and what graphql_query, get_json('p/<shortcode>/') and get_json('<username>/')
\* answer if they are asked.
Session(logged_in, query, page, user) ==
    [is_logged_in |-> logged_in, query |-> query, page |-> page, user |-> user]

RECURSIVE ProfileFromId(_, _)

\* Post.owner_profile when no owner view is at hand: the body of
\* "if not self._owner_profile"
PostResolveOwner(p, ses) ==
    LET quiet(post, res, fetched) ==
            [post |-> post, res |-> res, fetched |-> fetched,
             queries |-> 0, post_fetches |-> 0, profile_fetches |-> 0]
        \* self._full_metadata['owner']
        Owner(m) ==
            IF ~IsOk(m.res) THEN m
            ELSE IF m.res.val = PyNone THEN [m EXCEPT !.res = Raise("TypeError")]
            ELSE IF ~Has(m.res.val, "owner") THEN [m EXCEPT !.res = Raise("KeyError")]
            ELSE [m EXCEPT !.res = Ok(m.res.val.owner)]
        ById(f, r) ==
            [post |-> IF IsOk(r.res) THEN [f.post EXCEPT !.owner_profile = r.res.val]
                      ELSE f.post,
             res |-> r.res, fetched |-> f.fetched, queries |-> r.queries,
             post_fetches |-> r.post_fetches, profile_fetches |-> r.profile_fetches]
        Named(f, c) == quiet([f.post EXCEPT !.owner_profile = c.val], Ok(c.val), f.fetched)
        Of(f) ==
            IF ~IsOk(f.res) THEN quiet(f.post, f.res, f.fetched)
            ELSE IF Has(f.res.val, "username") THEN Named(f, ProfileInit(f.res.val))
            ELSE ById(f, ProfileFromId(f.res.val.id, ses))
    IN  IF Has(p.node.owner, "username")
        THEN Of([post |-> p, res |-> Ok(p.node.owner), fetched |-> 0])
        ELSE Of(Owner(PostFullMetadata(p, ses.page)))

\* a slip: the owner view at hand is not looked at
PostOwnerProfile_nomemo(p, ses) == PostResolveOwner(p, ses)

\* Post.owner_profile. Gives the Post afterwards, the result, and the number of
\* calls of each kind: get_json('p/<shortcode>/') by this Post (fetched) and by
\* other Posts (post_fetches), graphql_query (queries), get_json('<username>/')
\* (profile_fetches).
PostOwnerProfile(p, ses) ==
    IF TruthyObj(p.owner_profile)
    THEN [post |-> p, res |-> Ok(p.owner_profile), fetched |-> 0,
          queries |-> 0, post_fetches |-> 0, profile_fetches |-> 0]
    ELSE PostResolveOwner(p, ses)

\* a slip: an empty edge list is always taken as "no pics"
ProfileFromIdEmptyEdges_nopics(data) == Raise("ProfileHasNoPicsException")

\* Profile.from_id, the branch taken when data['edges'] is empty
ProfileFromIdEmptyEdges(data) ==
    IF ToInt(data.count) = 0 THEN Raise("ProfileHasNoPicsException")
    ELSE Raise("LoginRequiredException")

\* Profile.from_id. Gives the result and the number of calls of each kind.
ProfileFromId(profile_id, ses) ==
    LET none(r) == [res |-> r, queries |-> 0, post_fetches |-> 0, profile_fetches |-> 0]
        one(r) == [res |-> r, queries |-> 1, post_fetches |-> 0, profile_fetches |-> 0]
        Named(pm, op, un) ==
            [res |-> IF IsOk(un.res)
                     THEN ProfileInit([username |-> Lower(un.res.val), id |-> profile_id])
                     ELSE un.res,
             queries |-> 1 + op.queries,
             post_fetches |-> pm.fetched + op.fetched + op.post_fetches,
             profile_fetches |-> op.profile_fetches + un.fetched]
        Owned(pm, op) ==
            IF ~IsOk(op.res)
            THEN [res |-> op.res, queries |-> 1 + op.queries,
                  post_fetches |-> pm.fetched + op.fetched + op.post_fetches,
                  profile_fetches |-> op.profile_fetches]
            ELSE Named(pm, op, ProfileUsername(op.res.val, ses.user))
        First(pm) ==
            IF ~IsOk(pm.res)
            THEN [res |-> pm.res, queries |-> 1, post_fetches |-> pm.fetched,
                  profile_fetches |-> 0]
            ELSE Owned(pm, PostOwnerProfile(pm.res.val, ses))
        Of(data) ==
            IF Len(data.edges) = 0 THEN one(ProfileFromIdEmptyEdges(data))
            ELSE First(PostFromMediaid(NatToInt(ToInt(data.edges[1].node.id)), ses.page))
    IN  IF ~ses.is_logged_in THEN none(Raise("LoginRequiredException"))
        ELSE IF ~IsOk(ses.query) THEN one(ses.query)
        ELSE IF ~Truthy(ses.query.val.data.user) THEN one(Raise("ProfileNotExistsException"))
        ELSE Of(ses.query.val.data.user.edge_owner_to_timeline_media)

\* ========================= PROFILE: THE STATE MACHINE =====================
\* the largest number of outbound calls of one kind an instance is followed for
MaxFetches == 2

NoCalls == [fetched |-> 0, queries |-> 0, post_fetches |-> 0, profile_fetches |-> 0]
NoSession == Session(FALSE, Raise("ConnectionException"), Raise("ConnectionException"),
                     Raise("ConnectionException"))
NoOp == [op |-> "none", arg |-> <<>>, ses |-> NoSession, res |-> NoResult, calls |-> NoCalls]

\* ---- the user records the profile page may carry
UserFull == [username |-> "alice", id |-> PyStr(<<4, 2>>), biography |-> "bio"]
UserNoBio == [username |-> "Alice", id |-> PyStr(<<4, 2>>)]
UserOtherId == [username |-> "alice", id |-> PyStr(<<7>>), biography |-> "bio"]
UserNoName == [id |-> PyStr(<<4, 2>>), biography |-> "bio"]
UserRecords == {UserFull, UserNoBio, UserOtherId, UserNoName, EmptyDict}

\* get_json('<username>/'): the current or the legacy page, or an error
ProfileResponses ==
    {Ok([graphql |-> [user |-> u]]) : u \in UserRecords}
        \cup {Ok([user |-> UserFull])} \cup TransportErrors

\* ---- the records a Profile is built from directly
UserPic == [username |-> "carol", id |-> PyInt(5), profile_pic_url_hd |-> "sd"]
ProfileNodes ==
    {[username |-> "Alice"], [username |-> "bob", id |-> PyInt(42)], UserFull, UserPic}

\* ---- the key sequences the properties hand to _metadata, besides userid and
\* username: biography, and is_private (which no record of the model carries)
ProfileKeyPaths == {<<"biography">>, <<"is_private">>}

\* ---- graphql_query("472f257a...", {'id': ..., 'first': 1})
Timeline(count, edges) ==
    [data |-> [user |-> [edge_owner_to_timeline_media |->
                            [count |-> PyInt(count), edges |-> edges]]]]
QueryResponses ==
    {Ok([data |-> [user |-> PyNone]]), Ok([data |-> [user |-> EmptyDict]]),
     Ok(Timeline(0, <<>>)), Ok(Timeline(3, <<>>)),
     Ok(Timeline(3, <<[node |-> [id |-> PyStr(<<1>>)]]>>)),
     Ok(Timeline(0, <<[node |-> [id |-> PyStr(<<1>>)]]>>)),
     Raise("ConnectionException")}

\* ---- the full records the post page may carry
FullOwnerNamed == [id |-> PyStr(<<4, 2>>), username |-> "Alice"]
FullOwnerBare == [id |-> PyStr(<<4, 2>>)]
FullRecord(owner) ==
    [shortcode |-> <<1>>, id |-> PyStr(<<1>>), owner |-> owner, taken_at_timestamp |-> 0,
     display_url |-> "url", is_video |-> FALSE, location |-> PyNone,
     edge_media_preview_like |-> [count |-> PyInt(0), edges |-> <<>>]]
FullRecords == {FullRecord(FullOwnerNamed), FullRecord(FullOwnerBare), EmptyDict, PyNone}

\* get_json('p/<shortcode>/'): the current or the legacy page, or an error
PostResponses ==
    {Ok([graphql |-> [shortcode_media |-> r]]) : r \in FullRecords}
        \cup {Ok([media |-> FullRecord(FullOwnerNamed)])} \cup TransportErrors

ProfileSpecInit ==
    /\ CodecIdle
    /\ built = <<>>
    /\ posts = <<>>
    /\ postFetches = NoFetches
    /\ prof \in {PyNone} \cup {ProfileInit(n).val : n \in ProfileNodes}
    /\ profFetches = NoFetches
    /\ stories = <<>>
    /\ items = <<>>
    /\ profiles = <<>>
    /\ last = NoOp

\* Profile.from_username(context, username)
DoFromUsername(username, resp) ==
    /\ prof = PyNone
    /\ \E r \in {ProfileFromUsername(username, resp)} :
           /\ prof' = IF IsOk(r.res) THEN r.res.val ELSE prof
           /\ profFetches' = Fetched(NoFetches, r.fetched, resp)
           /\ last' = [op |-> "from_username", arg |-> <<username>>,
                       ses |-> Session(FALSE, NoSession.query, NoSession.page, resp),
                       res |-> r.res,
                       calls |-> [NoCalls EXCEPT !.profile_fetches = r.fetched]]
    /\ UNCHANGED <<storyVars, codecVars, ctorVars, postVars>>

\* Profile.from_id(context, profile_id)
DoFromId(profile_id, ses) ==
    /\ prof = PyNone
    /\ \E r \in {ProfileFromId(profile_id, ses)} :
           /\ prof' = IF IsOk(r.res) THEN r.res.val ELSE prof
           /\ last' = [op |-> "from_id", arg |-> <<profile_id>>, ses |-> ses, res |-> r.res,
                       calls |-> [NoCalls EXCEPT !.queries = r.queries,
                                                 !.post_fetches = r.post_fetches,
                                                 !.profile_fetches = r.profile_fetches]]
    /\ UNCHANGED <<storyVars, codecVars, ctorVars, postVars, profFetches>>

\* a property read through Profile._metadata(*keys): biography, is_private, ...
DoMetadata(keys, resp) ==
    /\ prof # PyNone
    /\ profFetches.issued < MaxFetches
    /\ \E r \in {ProfileMetadata(prof, keys, resp)} :
           /\ prof' = r.prof
           /\ profFetches' = Fetched(profFetches, r.fetched, resp)
           /\ last' = [op |-> "_metadata", arg |-> keys,
                       ses |-> Session(FALSE, NoSession.query, NoSession.page, resp),
                       res |-> r.res,
                       calls |-> [NoCalls EXCEPT !.fetched = r.fetched]]
    /\ UNCHANGED <<storyVars, codecVars, ctorVars, postVars>>

\* Profile.userid
DoUserid(resp) ==
    /\ prof # PyNone
    /\ profFetches.issued < MaxFetches
    /\ \E r \in {ProfileUserid(prof, resp)} :
           /\ prof' = r.prof
           /\ profFetches' = Fetched(profFetches, r.fetched, resp)
           /\ last' = [op |-> "userid", arg |-> <<>>,
                       ses |-> Session(FALSE, NoSession.query, NoSession.page, resp),
                       res |-> r.res,
                       calls |-> [NoCalls EXCEPT !.fetched = r.fetched]]
    /\ UNCHANGED <<storyVars, codecVars, ctorVars, postVars>>

\* Profile.username
DoUsername(resp) ==
    /\ prof # PyNone
    /\ profFetches.issued < MaxFetches
    /\ \E r \in {ProfileUsername(prof, resp)} :
           /\ prof' = r.prof
           /\ profFetches' = Fetched(profFetches, r.fetched, resp)
           /\ last' = [op |-> "username", arg |-> <<>>,
                       ses |-> Session(FALSE, NoSession.query, NoSession.page, resp),
                       res |-> r.res,
                       calls |-> [NoCalls EXCEPT !.fetched = r.fetched]]
    /\ UNCHANGED <<storyVars, codecVars, ctorVars, postVars>>

\* get_json('api/v1/users/<id>/info/') on the anonymous session
InfoResponses ==
    {Ok([user |-> [hd_profile_pic_url_info |-> [url |-> "hd"]]]), Ok([user |-> EmptyDict]),
     Ok(EmptyDict), Ok([user |-> PyNone])} \cup TransportErrors
\* get_json('<username>/') while a picture is looked for
PicResponses == ProfileResponses \cup {Ok([graphql |-> [user |-> UserPic]])}

\* Profile.get_profile_pic_url()
DoGetProfilePicUrl(info, resp) ==
    /\ prof # PyNone
    /\ profFetches.issued < MaxFetches
    /\ \E r \in {ProfileGetProfilePicUrl(prof, info, resp)} :
           /\ prof' = r.prof
           /\ profFetches' = Fetched(profFetches, r.fetched, resp)
           /\ last' = [op |-> "get_profile_pic_url", arg |-> <<info>>,
                       ses |-> Session(FALSE, NoSession.query, NoSession.page, resp),
                       res |-> r.res,
                       calls |-> [fetched |-> r.fetched, info_calls |-> r.info_calls,
                                  logged |-> r.logged]]
    /\ UNCHANGED <<storyVars, codecVars, ctorVars, postVars>>

\* context.username
Viewers == {PyNone, ViewerNamed("alice"), ViewerNamed("Alice"), ViewerNamed("bob")}
\* the user record of one's own profile page, with the saved posts' first page
SavedPage == [count |-> PyInt(2), edges |-> <<[node |-> FullRecord(FullOwnerNamed)]>>]
UserSaved == [username |-> "alice", id |-> PyStr(<<4, 2>>), edge_saved_media |-> SavedPage]
SavedResponses == ProfileResponses \cup {Ok([graphql |-> [user |-> UserSaved]])}
\* what graphql_node_list yields
NodeLists ==
    {Ok(<<>>), Ok(<<FullRecord(FullOwnerNamed), FullRecord(FullOwnerBare)>>),
     Ok(<<[shortcode |-> <<2>>]>>), Raise("ConnectionException")}

\* list(Profile.get_saved_posts())
DoGetSavedPosts(viewer, nodes, resp) ==
    /\ prof # PyNone
    /\ profFetches.issued < MaxFetches
    /\ \E r \in {ProfileGetSavedPosts(prof, viewer, nodes, resp)} :
           /\ prof' = r.prof
           /\ profFetches' = Fetched(profFetches, r.fetched, resp)
           /\ last' = [op |-> "get_saved_posts", arg |-> <<viewer, nodes, prof>>,
                       ses |-> Session(viewer # PyNone, NoSession.query, NoSession.page, resp),
                       res |-> r.res,
                       calls |-> [fetched |-> r.fetched, node_list_calls |-> r.node_list_calls,
                                  id |-> r.id, seed |-> r.seed]]
    /\ UNCHANGED <<storyVars, codecVars, ctorVars, postVars>>

ProfileIds == {PyInt(42), PyInt(7)}
Sessions ==
    {Session(l, q, Ok([graphql |-> [shortcode_media |-> FullRecord(FullOwnerNamed)]]), u) :
        l \in BOOLEAN, q \in QueryResponses, u \in {Ok([graphql |-> [user |-> UserFull]])}}

ProfileNext ==
    \/ \E n \in {"Alice", "bob"}, resp \in ProfileResponses : DoFromUsername(n, resp)
    \/ \E i \in ProfileIds, ses \in Sessions : DoFromId(i, ses)
    \/ \E k \in ProfileKeyPaths, resp \in ProfileResponses :
          DoMetadata(k, resp)
    \/ \E resp \in ProfileResponses : DoUserid(resp)
    \/ \E resp \in ProfileResponses : DoUsername(resp)
    \/ \E info \in InfoResponses, resp \in PicResponses : DoGetProfilePicUrl(info, resp)
    \/ \E v \in Viewers, nodes \in NodeLists, resp \in SavedResponses :
          DoGetSavedPosts(v, nodes, resp)

SpecProfile == ProfileSpecInit /\ [][ProfileNext]_vars

\* ----------------------------------------------------------- profile claims
\* C2: over any sequence of property accesses through _metadata, repeated
\* accesses to a key absent from both records included, a Profile instance
\* performs the full-record fetch get_json('<username>/') at most once.
\* Stated for the fetches that were answered with a page, so that a request
\* repeated after a transport error does not count against the claim.
C2_ProfileFetchedAtMostOnce == profFetches.answered <= 1

\* C10: Profile.from_id gives the most specific failure for each answer of the
\* server, in this order: not logged in -> LoginRequiredException, and no query
\* is issued; the query returns no user data -> ProfileNotExistsException; user
\* data with empty edges and count 0 -> ProfileHasNoPicsException; user data
\* with empty edges and count > 0 -> LoginRequiredException. In none of these
\* cases is a Profile returned or a post page fetched.
C10_FromIdFailures ==
    last.op = "from_id" =>
        LET ses == last.ses
            user == ses.query.val.data.user
            tl == user.edge_owner_to_timeline_media
            noUser == user = PyNone \/ user = EmptyDict
            failed(e) == /\ last.res = Raise(e)
                         /\ prof = PyNone
                         /\ last.calls.post_fetches = 0
        IN  /\ ~ses.is_logged_in =>
                failed("LoginRequiredException") /\ last.calls.queries = 0
            /\ (ses.is_logged_in /\ IsOk(ses.query)) =>
                /\ last.calls.queries = 1
                /\ noUser => failed("ProfileNotExistsException")
                /\ (~noUser /\ tl.edges = <<>> /\ tl.count.int = 0) =>
                       failed("ProfileHasNoPicsException")
                /\ (~noUser /\ tl.edges = <<>> /\ tl.count.int > 0) =>
                       failed("LoginRequiredException")

\* a logged-in from_id met posts it could not list, and asked for a login
C10_Witness ==
    /\ last.op = "from_id"
    /\ last.ses.is_logged_in
    /\ last.ses.query = Ok(Timeline(3, <<>>))
    /\ last.res = Raise("LoginRequiredException")
    /\ last.calls.queries = 1

\* C11: when the session is logged in and the single-item query returns a user
\* whose edge list is not empty, Profile.from_id(context, id) returns a Profile
\* whose userid is id and whose username is the lower-cased username of the
\* owner of the most recent post, found through Post.from_mediaid.
C11_FromIdResolves ==
    (/\ last.op = "from_id"
     /\ last.ses.is_logged_in
     /\ IsOk(last.ses.query)
     /\ Truthy(last.ses.query.val.data.user)
     /\ Len(last.ses.query.val.data.user.edge_owner_to_timeline_media.edges) > 0
     /\ IsOk(last.ses.page)) =>
        /\ IsOk(last.res)
        /\ prof = last.res.val
        /\ prof.node.id = last.arg[1]
        /\ prof.node.username = Lower(last.ses.page.val.graphql.shortcode_media.owner.username)

\* C12: Profile.from_username performs the full-record fetch before it returns.
\* If the transport reports not-found for the username, it fails with
\* ProfileNotExistsException and returns no Profile; if the transport answers
\* with a page, it returns a Profile whose record is the user record of that
\* page (any other failure of the transport is passed on, and no Profile is
\* returned).
C12_FromUsername ==
    last.op = "from_username" =>
        LET resp == last.ses.user
        IN  /\ last.calls.profile_fetches = 1
            /\ profFetches.issued >= 1
            /\ resp = Raise("QueryReturnedNotFoundException") =>
                   last.res = Raise("ProfileNotExistsException") /\ prof = PyNone
            /\ (~IsOk(resp) /\ resp # Raise("QueryReturnedNotFoundException")) =>
                   last.res = resp /\ prof = PyNone
            /\ IsOk(resp) =>
                   /\ IsOk(last.res)
                   /\ prof = last.res.val
                   /\ prof.node = IF Has(resp.val, "graphql") THEN resp.val.graphql.user
                                  ELSE resp.val.user

\* from_username asked for a name the service does not know
C12_Witness ==
    /\ last.op = "from_username"
    /\ last.ses.user = Raise("QueryReturnedNotFoundException")
    /\ last.res = Raise("ProfileNotExistsException")
    /\ profFetches.issued = 1
    /\ prof = PyNone

\* C13: Profile.get_profile_pic_url never passes an error on to the caller: for
\* every outcome of the high-resolution request and every content of the profile
\* record it returns a URL, the high-resolution one or the standard-resolution
\* fallback, and a fallback is logged.
\* Stated for a session that serves the profile page, so that a failure of that
\* request does not count against the claim.
C13_PicUrlNeverFails ==
    (last.op = "get_profile_pic_url" /\ IsOk(last.ses.user)) =>
        /\ IsOk(last.res)
        /\ last.res.val \in {"hd", "sd"}
        /\ last.res.val = "sd" => last.calls.logged = 1

\* C14: Profile.get_saved_posts fails with LoginRequiredException whenever the
\* session's username differs from the profile's username, and then neither the
\* pagination consumer (graphql_node_list) is called nor edge_saved_media looked
\* up; when the two names are equal it hands over to the pagination consumer,
\* called once with the profile's id and the known edge_saved_media connection
\* as its first page, and the Posts are built from the nodes it yields.
\* Stated for a Profile whose record carries its username when the call is
\* made; "known" is read as: the id and edge_saved_media are found by the
\* two-tier lookup.
C14_SavedPosts ==
    (last.op = "get_saved_posts" /\ Has(last.arg[3].node, "username")) =>
        LET viewer == last.arg[1]
            nodes == last.arg[2]
            before == last.arg[3]
            own == viewer = ViewerNamed(Lower(before.node.username))
            id == ProfileUserid(before, last.ses.user)
            saved == ProfileMetadata(id.prof, <<"edge_saved_media">>, last.ses.user)
        IN  /\ ~own =>
                /\ last.res = Raise("LoginRequiredException")
                /\ last.calls.node_list_calls = 0
                /\ last.calls.fetched = 0
                /\ last.calls.seed = PyNone
                /\ prof = before
            /\ (own /\ IsOk(id.res) /\ IsOk(saved.res)) =>
                /\ last.calls.node_list_calls = 1
                /\ last.calls.id = id.res.val
                /\ last.calls.seed = saved.res.val
                /\ ~IsOk(nodes) => last.res = nodes
                /\ (IsOk(nodes) /\ IsOk(last.res)) =>
                       /\ Len(last.res.val) = Len(nodes.val)
                       /\ \A i \in 1..Len(nodes.val) : last.res.val[i].node = nodes.val[i]

\* somebody else's saved posts were asked for
C14_Witness ==
    /\ last.op = "get_saved_posts"
    /\ last.arg[1] = ViewerNamed("bob")
    /\ last.arg[3].node.username = "Alice"
    /\ last.res = Raise("LoginRequiredException")
    /\ last.calls.node_list_calls = 0

\* one's own saved posts were listed from the known first page
C14_WitnessOwn ==
    /\ last.op = "get_saved_posts"
    /\ last.arg[1] = ViewerNamed("alice")
    /\ last.calls.node_list_calls = 1
    /\ last.calls.seed = SavedPage
    /\ IsOk(last.res) /\ Len(last.res.val) = 2

\* C16: identity keys are immutable: for every sequence of property accesses
\* and every answer of the transport, each read of an identity key returns what
\* the first read returned; in particular, a full-record fetch does not change
\* a Profile's userid.
\* Stated for Profile.userid, step by step: whenever the record carries an id
\* before and after an operation (so that userid is int(self._node['id']), with
\* no request), the two values are equal.
C16_UseridUnchanged ==
    [][(/\ prof # PyNone /\ Has(prof.node, "id")
        /\ prof' # PyNone /\ Has(prof'.node, "id"))
          => ToInt(prof'.node.id) = ToInt(prof.node.id)]_vars

\* C17: no operation on an entity changes its partial record: after any
\* sequence of property accesses and fetches, the partial record an entity
\* holds is the record it was constructed from; only the memoized cells change.
\* Stated for the Profile, step by step: the record it holds after an operation
\* is the record it held before.
C17_PartialRecordKept ==
    [][(prof # PyNone /\ prof' # PyNone) => prof'.node = prof.node]_vars

\* ====================== POST CONSTRUCTION: THE STATE MACHINE ==============
\* the names __init__ looks for, and a value for each
MandatoryNames ==
    {"shortcode", "code", "id", "owner", "date", "taken_at_timestamp",
     "display_url", "display_src", "is_video"}
FieldValue(k) ==
    CASE k \in {"shortcode", "code"} -> <<1>>
      [] k = "id" -> PyStr(<<1>>)
      [] k = "owner" -> FullOwnerBare
      [] k \in {"date", "taken_at_timestamp"} -> 0
      [] k \in {"display_url", "display_src"} -> "url"
      [] k = "is_video" -> FALSE
NodeOf(S) == [k \in S |-> FieldValue(k)]
CtorNodes == {NodeOf(S) : S \in SUBSET MandatoryNames}

\* "B", "C", "BA"
ShortCodes == {<<1>>, <<2>>, <<1, 0>>}
\* 1, 64, and 2^64
CtorMediaIds == {<<1>>, <<64>>, <<1>> \o Repeat(0, 8)}

CtorInit ==
    /\ CodecIdle
    /\ built = PyNone
    /\ posts = <<>>
    /\ postFetches = NoFetches
    /\ prof = <<>>
    /\ profFetches = NoFetches
    /\ stories = <<>>
    /\ items = <<>>
    /\ profiles = <<>>
    /\ last = NoOp

\* Post(context, node)
DoNewPost(node) ==
    /\ built = PyNone
    /\ \E r \in {PostInit(node, PyNone)} :
           /\ built' = IF IsOk(r) THEN r.val ELSE built
           /\ last' = [op |-> "Post", arg |-> <<node>>, ses |-> NoSession, res |-> r,
                       calls |-> NoCalls]
    /\ UNCHANGED <<storyVars, codecVars, postVars, profVars>>

\* Post.from_shortcode(context, shortcode)
DoFromShortcode(shortcode, resp) ==
    /\ built = PyNone
    /\ \E r \in {PostFromShortcode(shortcode, resp)} :
           /\ built' = IF IsOk(r.res) THEN r.res.val ELSE built
           /\ last' = [op |-> "from_shortcode", arg |-> <<shortcode>>,
                       ses |-> Session(FALSE, NoSession.query, resp, NoSession.user),
                       res |-> r.res,
                       calls |-> [NoCalls EXCEPT !.post_fetches = r.fetched]]
    /\ UNCHANGED <<storyVars, codecVars, postVars, profVars>>

\* Post.from_mediaid(context, mediaid)
DoFromMediaid(m, resp) ==
    /\ built = PyNone
    /\ \E r \in {PostFromMediaid(m, resp)} :
           /\ built' = IF IsOk(r.res) THEN r.res.val ELSE built
           /\ last' = [op |-> "from_mediaid", arg |-> <<m>>,
                       ses |-> Session(FALSE, NoSession.query, resp, NoSession.user),
                       res |-> r.res,
                       calls |-> [NoCalls EXCEPT !.post_fetches = r.fetched]]
    /\ UNCHANGED <<storyVars, codecVars, postVars, profVars>>

CtorNext ==
    \/ \E node \in CtorNodes : DoNewPost(node)
    \/ \E sc \in ShortCodes, resp \in PostResponses : DoFromShortcode(sc, resp)
    \/ \E m \in CtorMediaIds, resp \in PostResponses : DoFromMediaid(m, resp)

SpecCtor == CtorInit /\ [][CtorNext]_vars

\* ------------------------------------------------------- construction claims
\* the alternative names of each mandatory field
MandatoryFields ==
    {{"shortcode", "code"}, {"id"}, {"owner"}, {"date", "taken_at_timestamp"},
     {"display_url", "display_src"}, {"is_video"}}
Complete(node) == \A names \in MandatoryFields : names \cap DOMAIN node # {}

\* C3: Post.from_shortcode(context, code) builds a Post from the partial record
\* {shortcode: code} alone, performs the full-record fetch exactly once before
\* returning, and returns a Post whose field lookups are served from the fetched
\* record; Post.from_mediaid(id) does the same for mediaid_to_shortcode(id).
\* Stated for the calls whose fetch the transport answers with a page.
C3_FromShortcodeBuilds ==
    (/\ \/ last.op = "from_shortcode"
        \/ last.op = "from_mediaid" /\ Len(last.arg[1]) <= 8
     /\ IsOk(last.ses.page)
     /\ Has(last.ses.page.val, "graphql"))
        => /\ last.calls.post_fetches = 1
           /\ IsOk(last.res)
           /\ last.res.val.node = last.ses.page.val.graphql.shortcode_media
           /\ built = last.res.val

\* C4: constructing a Post from a record that lacks any one of the mandatory
\* fields (shortcode or code; id; owner; date or taken_at_timestamp; display_url
\* or display_src; is_video) fails at construction, with no Post and before any
\* outbound call; a record with one name of each mandatory field is accepted.
C4_MandatoryFields ==
    last.op = "Post" =>
        LET node == last.arg[1]
        IN  /\ Complete(node) =>
                /\ IsOk(last.res)
                /\ last.res.val.node = node
                /\ built = last.res.val
            /\ ~Complete(node) =>
                /\ last.res = Raise("AssertionError")
                /\ built = PyNone
            /\ last.calls = NoCalls

\* a record that lacks only the id was refused
C4_Witness ==
    /\ last.op = "Post"
    /\ DOMAIN last.arg[1] = MandatoryNames \ {"id"}
    /\ last.res = Raise("AssertionError")
    /\ built = PyNone

\* ========================== POST: THE STATE MACHINE =======================
\* ---- the partial records a Post is built from: the short code under either
\* name or both, the owner with or without a username, and what else a listing
\* may carry
PostNode(names, sc, owner, extra) ==
    [k \in names \cup {"id", "owner", "date", "display_url", "is_video"} \cup DOMAIN extra |->
        IF k \in {"shortcode", "code"} THEN sc
        ELSE IF k = "owner" THEN owner
        ELSE IF k \in DOMAIN extra THEN extra[k]
        ELSE FieldValue(k)]
CodeNames == {{"shortcode"}, {"code"}, {"shortcode", "code"}}
PostExtras ==
    {EmptyDict, [location |-> PyNone],
     [edge_media_preview_like |-> [count |-> PyInt(0), edges |-> <<>>], video_url |-> "v"]}
PostNodes ==
    {PostNode(n, <<1>>, o, x) :
        n \in CodeNames, o \in {FullOwnerBare, FullOwnerNamed}, x \in PostExtras}
\* the records of the Post that posts[1] is compared to
OtherNodes ==
    {PostNode(n, sc, FullOwnerBare, EmptyDict) :
        n \in {{"shortcode"}, {"code"}}, sc \in {<<1>>, <<2>>}}

\* ---- the key sequences the properties hand to _field: get_location, video_url,
\* likes, comments (which no record of the model carries)
PostKeyPaths ==
    {<<"location">>, <<"video_url">>, <<"edge_media_preview_like", "count">>,
     <<"edge_media_to_comment", "count">>}

\* the owner_profile a Post is constructed with: none, or the owner's Profile as
\* Profile.get_posts hands it over
GivenOwners == {PyNone, ProfileInit(UserOtherId).val}

PostSpecInit ==
    /\ CodecIdle
    /\ built = <<>>
    /\ posts \in {<<PostInit(a, o).val, PostInit(b, PyNone).val>> :
                    a \in PostNodes, o \in GivenOwners, b \in OtherNodes}
    /\ postFetches = NoFetches
    /\ prof = <<>>
    /\ profFetches = NoFetches
    /\ stories = <<>>
    /\ items = <<>>
    /\ profiles = <<>>
    /\ last = NoOp

\* a property of posts[1] read through Post._field(*keys): likes, comments, ...
DoField(keys, resp) ==
    /\ postFetches.issued < MaxFetches
    /\ \E r \in {PostField(posts[1], keys, resp)} :
           /\ posts' = [posts EXCEPT ![1] = r.post]
           /\ postFetches' = Fetched(postFetches, r.fetched, resp)
           /\ last' = [op |-> "_field", arg |-> keys,
                       ses |-> Session(FALSE, NoSession.query, resp, NoSession.user),
                       res |-> r.res,
                       calls |-> [NoCalls EXCEPT !.fetched = r.fetched]]
    /\ UNCHANGED <<storyVars, codecVars, ctorVars, profVars>>

\* posts[1].owner_profile
DoOwnerProfile(ses) ==
    /\ postFetches.issued < MaxFetches
    /\ \E r \in {PostOwnerProfile(posts[1], ses)} :
           /\ posts' = [posts EXCEPT ![1] = r.post]
           /\ postFetches' = Fetched(postFetches, r.fetched, ses.page)
           /\ last' = [op |-> "owner_profile", arg |-> <<>>, ses |-> ses, res |-> r.res,
                       calls |-> [fetched |-> r.fetched, queries |-> r.queries,
                                  post_fetches |-> r.post_fetches,
                                  profile_fetches |-> r.profile_fetches]]
    /\ UNCHANGED <<storyVars, codecVars, ctorVars, profVars>>

\* posts[i] == posts[j]
DoPostEq(i, j) ==
    /\ last' = [op |-> "__eq__", arg |-> <<i, j>>, ses |-> NoSession,
                res |-> Ok(PostEq(posts[i], posts[j])), calls |-> NoCalls]
    /\ UNCHANGED <<storyVars, codecVars, ctorVars, postVars, profVars>>

\* hash(posts[i]), hash(posts[j])
DoPostHash(i, j) ==
    /\ last' = [op |-> "__hash__", arg |-> <<i, j>>, ses |-> NoSession,
                res |-> Ok(<<PostHash(posts[i]), PostHash(posts[j])>>), calls |-> NoCalls]
    /\ UNCHANGED <<storyVars, codecVars, ctorVars, postVars, profVars>>

PostSessions ==
    {Session(l, q, pg, Ok([graphql |-> [user |-> UserFull]])) :
        l \in BOOLEAN, q \in {Ok(Timeline(0, <<>>))}, pg \in PostResponses}

PostNext ==
    \/ \E k \in PostKeyPaths, resp \in PostResponses : DoField(k, resp)
    \/ \E ses \in PostSessions : DoOwnerProfile(ses)
    \/ \E a \in {<<1, 2>>, <<2, 1>>} : DoPostEq(a[1], a[2])
    \/ \E a \in {<<1, 2>>, <<2, 1>>} : DoPostHash(a[1], a[2])

SpecPost == PostSpecInit /\ [][PostNext]_vars

\* -------------------------------------------------------------- post claims
\* the short code a record carries, under whichever name
Carried(node) == CHOOSE v \in {node[k] : k \in {"shortcode", "code"} \cap DOMAIN node} : TRUE

\* C1: over any sequence of property accesses and method calls that need the
\* full record, and for every answer of the transport, a Post instance issues
\* the full-record fetch get_json('p/<shortcode>/') at most once.
\* Stated for the fetches that were answered with a page, so that a request
\* repeated after a transport error does not count against the claim.
C1_PostFetchedAtMostOnce == postFetches.answered <= 1

\* C9: two Post instances are equal if and only if their short codes are equal,
\* whatever else their partial records contain and whichever field name
\* (shortcode or code) carries the short code; equal Posts have the same hash;
\* neither comparing nor hashing makes an outbound call.
C9_PostEquality ==
    /\ last.op = "__eq__" =>
          /\ last.res = Ok(Carried(posts[last.arg[1]].node) = Carried(posts[last.arg[2]].node))
          /\ last.calls = NoCalls
    /\ last.op = "__hash__" =>
          /\ Carried(posts[last.arg[1]].node) = Carried(posts[last.arg[2]].node)
                => last.res.val[1] = last.res.val[2]
          /\ last.calls = NoCalls

\* two Posts built from different records, one naming the short code
\* "shortcode" and the other "code", compared equal, one of them after a fetch
C9_Witness ==
    /\ last.op = "__eq__"
    /\ last.arg = <<1, 2>>
    /\ last.res = Ok(TRUE)
    /\ posts[1].node # posts[2].node
    /\ ~Has(posts[1].node, "code")
    /\ ~Has(posts[2].node, "shortcode")
    /\ posts[1].full_metadata_dict # PyNone

\* the record a post page carries
PageRecord(page) ==
    IF Has(page, "graphql") THEN page.graphql.shortcode_media ELSE page.media

\* C18: the two-tier lookup of Post._field(keys): if the whole key path is in
\* the partial record, its value there is returned and no fetch is made; if a
\* key of the path is missing there, the result is what walking the same path
\* in the full record gives (the record at hand, or the one fetched by this
\* call), which is KeyError if a key of the path is missing there too; the
\* call fetches at most once, also when it fails.
C18_TwoTierLookup ==
    last.op = "_field" =>
        LET keys == last.arg
            w == Walk(posts[1].node, keys)
            full == posts[1].full_metadata_dict
            resp == last.ses.page
        IN  /\ w.tag # "KeyError" => last.res = w /\ last.calls.fetched = 0
            /\ w.tag = "KeyError" =>
                /\ last.calls.fetched <= 1
                /\ last.calls.fetched = 0 => Truthy(full) /\ last.res = Walk(full, keys)
                /\ (last.calls.fetched = 1 /\ ~IsOk(resp)) => last.res = resp
                /\ (last.calls.fetched = 1 /\ IsOk(resp)) =>
                       /\ full = PageRecord(resp.val)
                       /\ last.res = Walk(full, keys)
                       /\ (full # PyNone /\ ~Has(full, keys[1])) =>
                              last.res = Raise("KeyError")

\* a field that neither record carries was asked for, and the page was fetched
\* once for it
C18_Witness ==
    /\ last.op = "_field"
    /\ last.arg = <<"edge_media_to_comment", "count">>
    /\ last.calls.fetched = 1
    /\ Truthy(posts[1].full_metadata_dict)
    /\ last.res = Raise("KeyError")

\* one access to posts[1].owner_profile, from the state before to the state after
OwnerStep ==
    last'.op = "owner_profile" =>
        LET p == posts[1]
            q == posts'[1]
            c == last'.calls
            ses == last'.ses
            silent == c.fetched = 0 /\ c.queries = 0 /\ c.post_fetches = 0
                          /\ c.profile_fetches = 0
            full == q.full_metadata_dict
            got == c.fetched = 0 \/ IsOk(ses.page)
        IN  \* an owner view at hand, given at construction or produced before
            /\ p.owner_profile # PyNone =>
                   last'.res = Ok(p.owner_profile) /\ q = p /\ silent
            \* the embedded owner reference carries a username
            /\ (p.owner_profile = PyNone /\ Has(p.node.owner, "username")) =>
                   /\ last'.res = ProfileInit(p.node.owner)
                   /\ q.owner_profile = last'.res.val
                   /\ silent
            \* otherwise the full record's owner reference
            /\ (p.owner_profile = PyNone /\ ~Has(p.node.owner, "username")) =>
                   /\ c.fetched = IF Truthy(p.full_metadata_dict) THEN 0 ELSE 1
                   /\ (got /\ Truthy(full) /\ Has(full.owner, "username")) =>
                          /\ last'.res = ProfileInit(full.owner)
                          /\ q.owner_profile = last'.res.val
                          /\ c.queries = 0
                   \* and Profile.from_id only if that one has no username either
                   /\ (got /\ Truthy(full) /\ ~Has(full.owner, "username")) =>
                          /\ c.queries = IF ses.is_logged_in THEN 1 ELSE 0
                          /\ last'.res = ProfileFromId(full.owner.id, ses).res
                   /\ ~(got /\ Truthy(full)) => ~IsOk(last'.res) /\ c.queries = 0

\* C19: Post.owner_profile resolves in a fixed order and is memoized: an owner
\* given at construction, or an embedded owner reference with a username, is
\* used with no outbound call; otherwise the full record is fetched and its
\* owner reference is wrapped if it has a username; only if that one has no
\* username either is Profile.from_id called. Once an owner view has been
\* produced, it stays, and every later access returns it and makes no outbound
\* call.
C19_OwnerProfile ==
    [][/\ OwnerStep
       /\ posts[1].owner_profile # PyNone => posts'[1].owner_profile = posts[1].owner_profile]_vars

\* an owner view that took a fetch of the post page was returned again without
\* any call
C19_Witness ==
    /\ last.op = "owner_profile"
    /\ ~Has(posts[1].node.owner, "username")
    /\ last.res = Ok(posts[1].owner_profile)
    /\ last.calls.fetched = 0
    /\ postFetches.answered = 1

\* =============== POST COMMENTS AND LIKES: THE STATE MACHINE ===============
\* the most fetches of the post page within one behaviour
MaxEdgeFetches == 2
\* ---- a connection as a record carries it: the declared count and the edges at
\* hand
Conn(count, edges) == [count |-> PyInt(count), edges |-> edges]
EdgeOf(n) == [node |-> [id |-> PyStr(<<n>>)]]
Connections ==
    {Conn(0, <<>>), Conn(0, <<EdgeOf(1)>>), Conn(2, <<EdgeOf(1), EdgeOf(2)>>),
     Conn(3, <<EdgeOf(1)>>)}
\* what a partial record carries of the two connections
EdgeExtras ==
    {EmptyDict} \cup {[edge_media_to_comment |-> c] : c \in Connections}
        \cup {[edge_media_preview_like |-> c] : c \in Connections}
        \cup {[edge_media_to_comment |-> c, edge_media_preview_like |-> d] :
                 c \in Connections, d \in Connections}
EdgeNodes == {PostNode({"shortcode"}, <<1>>, FullOwnerNamed, x) : x \in EdgeExtras}
\* get_json('p/<shortcode>/'): a page whose record carries both connections, one
\* whose record carries none, an empty record, or an error
EdgeResponses ==
    {Ok([graphql |-> [shortcode_media |->
            PostNode({"shortcode"}, <<1>>, FullOwnerNamed,
                     [edge_media_to_comment |-> c, edge_media_preview_like |-> c])]]) :
        c \in Connections}
        \cup {Ok([graphql |-> [shortcode_media |-> FullRecord(FullOwnerNamed)]]),
              Ok([graphql |-> [shortcode_media |-> EmptyDict]])}
        \cup TransportErrors
\* what graphql_node_list yields
EdgeNodeLists ==
    {Ok(<<>>), Ok(<<EdgeOf(1).node, EdgeOf(2).node, EdgeOf(3).node>>),
     Raise("ConnectionException")}

EdgeSpecInit ==
    /\ CodecIdle
    /\ built = <<>>
    /\ posts \in {<<PostInit(a, PyNone).val>> : a \in EdgeNodes}
    /\ postFetches = NoFetches
    /\ prof = <<>>
    /\ profFetches = NoFetches
    /\ stories = <<>>
    /\ items = <<>>
    /\ profiles = <<>>
    /\ last = NoOp

\* list(posts[1].get_comments())
DoGetComments(nodes, resp) ==
    /\ postFetches.issued < MaxEdgeFetches
    /\ \E r \in {PostGetComments(posts[1], nodes, resp)} :
           /\ posts' = [posts EXCEPT ![1] = r.post]
           /\ postFetches' = Fetched(postFetches, r.fetched, resp)
           /\ last' = [op |-> "get_comments", arg |-> <<nodes, posts[1]>>,
                       ses |-> Session(FALSE, NoSession.query, resp, NoSession.user),
                       res |-> r.res,
                       calls |-> [fetched |-> r.fetched,
                                  node_list_calls |-> r.node_list_calls]]
    /\ UNCHANGED <<storyVars, codecVars, ctorVars, profVars>>

\* list(posts[1].get_likes())
DoGetLikes(nodes, resp) ==
    /\ postFetches.issued < MaxEdgeFetches
    /\ \E r \in {PostGetLikes(posts[1], nodes, resp)} :
           /\ posts' = [posts EXCEPT ![1] = r.post]
           /\ postFetches' = Fetched(postFetches, r.fetched, resp)
           /\ last' = [op |-> "get_likes", arg |-> <<nodes, posts[1]>>,
                       ses |-> Session(FALSE, NoSession.query, resp, NoSession.user),
                       res |-> r.res,
                       calls |-> [fetched |-> r.fetched,
                                  node_list_calls |-> r.node_list_calls]]
    /\ UNCHANGED <<storyVars, codecVars, ctorVars, profVars>>

EdgeNext ==
    \/ \E nodes \in EdgeNodeLists, resp \in EdgeResponses : DoGetComments(nodes, resp)
    \/ \E nodes \in EdgeNodeLists, resp \in EdgeResponses : DoGetLikes(nodes, resp)

SpecEdges == EdgeSpecInit /\ [][EdgeNext]_vars

\* ------------------------------------------------- comments and likes claims
\* the connection an operation reads
ConnOf(op) == IF op = "get_comments" THEN "edge_media_to_comment" ELSE "edge_media_preview_like"

\* whether the lookup of keys in Post p has to ask for the post page
NeedsFetch(p, keys) == Walk(p.node, keys).tag = "KeyError" /\ ~Truthy(p.full_metadata_dict)

\* the value declared for keys: the partial record's, else the full record's
\* (the one at hand, or the one the page resp carries)
Declared(p, resp, keys) ==
    IF Walk(p.node, keys).tag # "KeyError" THEN Walk(p.node, keys)
    ELSE IF Truthy(p.full_metadata_dict) THEN Walk(p.full_metadata_dict, keys)
    ELSE IF IsOk(resp) /\ Has(resp.val, "graphql")
    THEN Walk(resp.val.graphql.shortcode_media, keys)
    ELSE Raise("KeyError")

\* the three cases of get_comments and get_likes; quiet says how many fetches of
\* the post page the first two cases may make
EdgeCases(quiet(_, _)) ==
    last.op \in {"get_comments", "get_likes"} =>
        LET nodes == last.arg[1]
            before == last.arg[2]
            conn == ConnOf(last.op)
            cnt == Declared(before, last.ses.page, <<conn, "count">>)
            edg == Declared(before, last.ses.page, <<conn, "edges">>)
        IN  (IsOk(cnt) /\ IsOk(edg)) =>
                /\ cnt.val.int = 0 =>
                       /\ last.res = Ok(<<>>)
                       /\ last.calls.node_list_calls = 0
                       /\ quiet(before, <<conn, "count">>)
                /\ (cnt.val.int # 0 /\ cnt.val.int = Len(edg.val)) =>
                       /\ last.res = Ok([i \in 1..Len(edg.val) |-> edg.val[i].node])
                       /\ last.calls.node_list_calls = 0
                       /\ quiet(before, <<conn, "count">>)
                /\ (cnt.val.int # 0 /\ cnt.val.int # Len(edg.val)) =>
                       /\ last.calls.node_list_calls = 1
                       /\ last.res = nodes

\* C15 as it is stated: Post.get_comments and Post.get_likes: when the declared
\* count is zero the sequence is empty and no outbound call is made; when the
\* declared count equals the length of the edge list at hand the sequence is the
\* nodes of those edges in order and no outbound call is made; otherwise the
\* pagination consumer is called once and its records are yielded.
C15_EdgeListsAsStated ==
    LET none(p, keys) == last.calls.fetched = 0
    IN  EdgeCases(none)

\* C15: Post.get_comments and Post.get_likes: when the declared count is zero
\* the sequence is empty, and when it equals the length of the edge list at hand
\* the sequence is the nodes of those edges in order; in both cases the
\* pagination consumer is not called, and no outbound call at all is made if
\* the partial record (or a full record fetched before) carries the connection,
\* while exactly one fetch of the post page is made if it does not. Otherwise
\* the pagination consumer is called once and its records are yielded.
C15_EdgeLists ==
    LET atmost(p, keys) == last.calls.fetched = IF NeedsFetch(p, keys) THEN 1 ELSE 0
    IN  EdgeCases(atmost)

\* the comments were all in the full record, which had to be fetched for them
C15_Witness ==
    /\ last.op = "get_comments"
    /\ ~Has(last.arg[2].node, "edge_media_to_comment")
    /\ last.calls.fetched = 1
    /\ last.calls.node_list_calls = 0
    /\ IsOk(last.res) /\ Len(last.res.val) = 2

\* ===================== POST LOCATION: THE STATE MACHINE ===================
\* the most fetches of the post page within one behaviour
MaxLocFetches == 2
\* a location reference, and the data the location page carries for it
LocRef == [id |-> PyStr(<<7>>), name |-> "n"]
LocData == [id |-> PyStr(<<7>>), name |-> "n", lat |-> "1", lng |-> "2"]
\* what a partial record carries of the location: nothing, null, a reference
LocExtras == {EmptyDict, [location |-> PyNone], [location |-> LocRef]}
LocNodes == {PostNode({"shortcode"}, <<1>>, FullOwnerNamed, x) : x \in LocExtras}
\* get_json('p/<shortcode>/'): a page whose record has a location reference, a
\* null location or no location field, or an error
LocPageResponses ==
    {Ok([graphql |-> [shortcode_media |-> r]]) : r \in LocNodes} \cup TransportErrors
\* get_json('explore/locations/<id>/'): the legacy or the current page, a page
\* without location data, or an error
LocResponses ==
    {Ok([location |-> LocData]), Ok([graphql |-> [location |-> LocData]]),
     Ok([graphql |-> EmptyDict])} \cup TransportErrors

LocSpecInit ==
    /\ CodecIdle
    /\ built = <<>>
    /\ posts \in {<<PostInit(a, PyNone).val>> : a \in LocNodes}
    /\ postFetches = NoFetches
    /\ prof = <<>>
    /\ profFetches = NoFetches
    /\ stories = <<>>
    /\ items = <<>>
    /\ profiles = <<>>
    /\ last = NoOp

\* posts[1].get_location()
DoGetLocation(loc, resp) ==
    /\ postFetches.issued < MaxLocFetches
    /\ \E r \in {PostGetLocation(posts[1], loc, resp)} :
           /\ posts' = [posts EXCEPT ![1] = r.post]
           /\ postFetches' = Fetched(postFetches, r.fetched, resp)
           /\ last' = [op |-> "get_location", arg |-> <<loc, posts[1]>>,
                       ses |-> Session(FALSE, NoSession.query, resp, NoSession.user),
                       res |-> r.res,
                       calls |-> [fetched |-> r.fetched,
                                  location_fetches |-> r.location_fetches]]
    /\ UNCHANGED <<storyVars, codecVars, ctorVars, profVars>>

LocNext == \E loc \in LocResponses, resp \in LocPageResponses : DoGetLocation(loc, resp)

SpecLocation == LocSpecInit /\ [][LocNext]_vars

\* ---------------------------------------------------------- location claims
\* the location field of Post p as the two-tier lookup finds it, given the page
\* resp: Ok(value), or a failure
LocationOf(p, resp) == Declared(p, resp, <<"location">>)

\* whether the location field is in neither record of Post p, the page resp
\* having been served
LocationAbsent(p, resp) ==
    /\ ~Has(p.node, "location")
    /\ IF Truthy(p.full_metadata_dict) THEN ~Has(p.full_metadata_dict, "location")
       ELSE IsOk(resp) /\ ~Has(PageRecord(resp.val), "location")

\* C21 as it is stated: Post.get_location: if the post has a location reference
\* it performs exactly one location fetch and returns the location data; if it
\* has none (the location field is null, or absent from both the partial and the
\* full record) it returns no value, raises no error and performs no location
\* fetch.
C21_GetLocationAsStated ==
    last.op = "get_location" =>
        LET loc == last.arg[1]
            before == last.arg[2]
            ref == LocationOf(before, last.ses.page)
        IN  /\ (IsOk(ref) /\ ref.val # PyNone) =>
                   /\ last.calls.location_fetches = 1
                   /\ (IsOk(loc) /\ last.res # Raise("KeyError")) => last.res = Ok(LocData)
            /\ ((IsOk(ref) /\ ref.val = PyNone) \/ LocationAbsent(before, last.ses.page)) =>
                   last.res = Ok(PyNone) /\ last.calls.location_fetches = 0

\* C21: Post.get_location: if the post has a location reference it performs
\* exactly one location fetch and returns the location data of the page; if the
\* location field is null it returns no value, raises no error and performs no
\* location fetch; if the location field is absent from both the partial and
\* the full record it raises KeyError, after the full-record fetch and without
\* a location fetch.
C21_GetLocation ==
    last.op = "get_location" =>
        LET loc == last.arg[1]
            before == last.arg[2]
            ref == LocationOf(before, last.ses.page)
        IN  /\ (IsOk(ref) /\ ref.val # PyNone) =>
                   /\ last.calls.location_fetches = 1
                   /\ (IsOk(loc) /\ last.res # Raise("KeyError")) => last.res = Ok(LocData)
                   /\ ~IsOk(loc) => last.res = loc
            /\ (IsOk(ref) /\ ref.val = PyNone) =>
                   last.res = Ok(PyNone) /\ last.calls.location_fetches = 0
            /\ LocationAbsent(before, last.ses.page) =>
                   /\ last.res = Raise("KeyError")
                   /\ last.calls.location_fetches = 0
                   /\ last.calls.fetched = IF Truthy(before.full_metadata_dict) THEN 0 ELSE 1

\* a location reference found in the full record was resolved with one request
C21_Witness ==
    /\ last.op = "get_location"
    /\ ~Has(last.arg[2].node, "location")
    /\ last.calls.fetched = 1
    /\ last.calls.location_fetches = 1
    /\ last.res = Ok(LocData)

\* a post without a location field in either record was asked for its location
C21_WitnessAbsent ==
    /\ last.op = "get_location"
    /\ LocationAbsent(last.arg[2], last.ses.page)
    /\ last.res = Raise("KeyError")

\* ============================ STORYITEM, STORY ==========================
\* bool(v) of a str or None: None and the empty text are false
TruthyStr(v) == v # PyNone /\ Len(v.str) > 0

\* StoryItem.__init__
StoryItemInit(node, owner_profile) == [node |-> node, owner_profile |-> owner_profile]

\* StoryItem.mediaid
StoryItemMediaid(item) == ToInt(item.node.id)

\* StoryItem.shortcode
StoryItemShortcode(item) == mediaid_to_shortcode(NatToInt(StoryItemMediaid(item)))

\* Story.__init__
StoryInit(node) == [node |-> node, unique_id |-> PyNone]

\* Story.owner_profile: a Profile built anew from the record's user
StoryOwnerProfile(st) == ProfileInit(st.node.user)

\* Story.owner_id
StoryOwnerId(st, resp) ==
    LET Of(pr) ==
            IF ~IsOk(pr) THEN [res |-> pr, fetched |-> 0]
            ELSE LET Id(u) == [res |-> u.res, fetched |-> u.fetched]
                 IN  Id(ProfileUserid(pr.val, resp))
    IN  Of(StoryOwnerProfile(st))

\* Story.get_items, consumed to its end: the StoryItems in the record's order
StoryGetItems(st) ==
    LET Of(pr) ==
            IF Len(st.node.items) > 0 /\ ~IsOk(pr) THEN pr
            ELSE Ok([i \in 1..Len(st.node.items) |-> StoryItemInit(st.node.items[i], pr.val)])
    IN  Of(StoryOwnerProfile(st))

\* the place of x in the ascending list s
RECURSIVE Insert(_, _)
Insert(x, s) ==
    IF Len(s) = 0 THEN <<x>>
    ELSE IF x <= s[1] THEN <<x>> \o s
    ELSE <<s[1]>> \o Insert(x, Tail(s))

\* a slip: the list is left in the record's order
SortAsc_unsorted(s) == s

\* id_list.sort(): the integers in ascending order
RECURSIVE SortAsc(_)
SortAsc(s) == IF Len(s) = 0 THEN s ELSE Insert(s[1], SortAsc(Tail(s)))

\* str().join(texts)
RECURSIVE StrJoin(_)
StrJoin(ts) == IF Len(ts) = 0 THEN <<>> ELSE ts[1] \o StrJoin(Tail(ts))

\* Story.unique_id. resp is what get_json('<username>/') answers if owner_id has
\* to ask. Gives the Story afterwards, the result, and the number of calls.
StoryUniqueId(st, resp) ==
    LET Keep(uid, fetched) ==
            [story |-> [st EXCEPT !.unique_id = uid], res |-> Ok(uid), fetched |-> fetched]
        Texts(id_list) == [i \in 1..Len(id_list) |-> Str(id_list[i])]
        Join(its, oid) ==
            IF ~IsOk(oid.res) THEN [story |-> st, res |-> oid.res, fetched |-> oid.fetched]
            ELSE Keep(PyStr(StrJoin(<<Str(oid.res.val)>> \o
                        Texts(SortAsc([i \in 1..Len(its.val) |->
                                          StoryItemMediaid(its.val[i])])))),
                      oid.fetched)
        Of(its) ==
            IF ~IsOk(its) THEN [story |-> st, res |-> its, fetched |-> 0]
            ELSE Join(its, StoryOwnerId(st, resp))
    IN  IF ~TruthyStr(st.unique_id) THEN Of(StoryGetItems(st))
        ELSE [story |-> st, res |-> Ok(st.unique_id), fetched |-> 0]

\* Story.__eq__ between two Stories: self.unique_id, then o.unique_id
StoryEq(a, b, resp) ==
    LET Both(ua, ub) ==
            [a |-> ua.story, b |-> ub.story,
             res |-> IF IsOk(ub.res) THEN Ok(ua.res.val = ub.res.val) ELSE ub.res,
             fetched |-> ua.fetched + ub.fetched]
        Of(ua) ==
            IF ~IsOk(ua.res)
            THEN [a |-> ua.story, b |-> b, res |-> ua.res, fetched |-> ua.fetched]
            ELSE Both(ua, StoryUniqueId(b, resp))
    IN  Of(StoryUniqueId(a, resp))

\* Story.__hash__: hash(self._unique_id), the kept cell as it is, which is None
\* until unique_id has been computed. hash(None) is a value of its own, here -1,
\* that no text hashes to; a text hashes as StrHash does.
StoryHash(st) == IF st.unique_id = PyNone THEN 0 - 1 ELSE StrHash(st.unique_id.str)

\* ========================= STORY: THE STATE MACHINE =======================
\* the most items a story of the model holds
MaxItems == 3
\* the item ids: 3, 5, 9, 23
ItemIds == {PyStr(<<3>>), PyStr(<<5>>), PyStr(<<9>>), PyStr(<<2, 3>>)}
\* the owners: 42, 1, 12, and one whose record carries no id
StoryUsers ==
    {[username |-> "alice", id |-> PyStr(<<4, 2>>)], [username |-> "bob", id |-> PyStr(<<1>>)],
     [username |-> "carol", id |-> PyStr(<<1, 2>>)], [username |-> "Alice"]}
\* the item lists: no id twice in one story
ItemLists ==
    {s \in SeqsUpTo(ItemIds, MaxItems) : \A i, j \in 1..Len(s) : s[i] = s[j] => i = j}
StoryNode(user, ids) == [user |-> user, items |-> [i \in 1..Len(ids) |-> [id |-> ids[i]]]]
StoryNodes == {StoryNode(u, ids) : u \in StoryUsers, ids \in ItemLists}
\* the records of the Story that stories[1] is compared to
OtherStoryNodes ==
    {StoryNode(u, ids) :
        u \in {[username |-> "alice", id |-> PyInt(42)],
               [username |-> "carol", id |-> PyStr(<<1, 2>>)]},
        ids \in {<<>>, <<PyStr(<<3>>)>>, <<PyStr(<<5>>), PyStr(<<3>>)>>,
                 <<PyStr(<<9>>), PyStr(<<5>>), PyStr(<<3>>)>>,
                 <<PyStr(<<3>>), PyStr(<<5>>), PyStr(<<9>>)>>}}
StoryResponses == {Ok([graphql |-> [user |-> UserFull]]), Raise("QueryReturnedNotFoundException")}

StorySpecInit ==
    /\ CodecIdle
    /\ built = <<>>
    /\ posts = <<>>
    /\ postFetches = NoFetches
    /\ prof = <<>>
    /\ profFetches = NoFetches
    /\ stories \in {<<StoryInit(a), StoryInit(b)>> : a \in StoryNodes, b \in OtherStoryNodes}
    /\ items = <<>>
    /\ profiles = <<>>
    /\ last = NoOp

\* stories[i].unique_id
DoUniqueId(i, resp) ==
    /\ \E r \in {StoryUniqueId(stories[i], resp)} :
           /\ stories' = [stories EXCEPT ![i] = r.story]
           /\ last' = [op |-> "unique_id", arg |-> <<i>>,
                       ses |-> Session(FALSE, NoSession.query, NoSession.page, resp),
                       res |-> r.res,
                       calls |-> [NoCalls EXCEPT !.profile_fetches = r.fetched]]
    /\ UNCHANGED <<codecVars, ctorVars, postVars, profVars, items, profiles>>

\* stories[i] == stories[j]
DoStoryEq(i, j, resp) ==
    /\ \E r \in {StoryEq(stories[i], stories[j], resp)} :
           /\ stories' = [stories EXCEPT ![i] = r.a, ![j] = r.b]
           /\ last' = [op |-> "__eq__", arg |-> <<i, j>>,
                       ses |-> Session(FALSE, NoSession.query, NoSession.page, resp),
                       res |-> r.res,
                       calls |-> [NoCalls EXCEPT !.profile_fetches = r.fetched]]
    /\ UNCHANGED <<codecVars, ctorVars, postVars, profVars, items, profiles>>

\* hash(stories[i]), hash(stories[j])
DoStoryHash(i, j) ==
    /\ last' = [op |-> "__hash__", arg |-> <<i, j>>, ses |-> NoSession,
                res |-> Ok(<<StoryHash(stories[i]), StoryHash(stories[j])>>),
                calls |-> NoCalls]
    /\ UNCHANGED <<storyVars, codecVars, ctorVars, postVars, profVars>>

StoryNext ==
    \/ \E i \in 1..2, resp \in StoryResponses : DoUniqueId(i, resp)
    \/ \E a \in {<<1, 2>>, <<2, 1>>} : DoStoryHash(a[1], a[2])
    \/ \E a \in {<<1, 2>>, <<2, 1>>}, resp \in StoryResponses : DoStoryEq(a[1], a[2], resp)

SpecStory == StorySpecInit /\ [][StoryNext]_vars

\* ==================== STORY ITEMS AND THEIR OWNER: THE STATE MACHINE ========
\* Profile instances are told apart by reference: profiles holds the instances in
\* the order of their construction, and a reference is an index into it.

\* Story.owner_profile, with the instance it constructs: Profile(context, user) is
\* evaluated at every read. Gives the reference and the instances afterwards.
StoryOwnerProfileNew(st, heap) ==
    LET Of(c) ==
            IF IsOk(c) THEN [res |-> Ok(Len(heap) + 1), profiles |-> Append(heap, c.val)]
            ELSE [res |-> c, profiles |-> heap]
    IN  Of(StoryOwnerProfile(st))

\* the generator expression of Story.get_items over the item records still to
\* come: StoryItem(self._context, item, self.owner_profile) for each, where
\* self.owner_profile is read anew for every item
RECURSIVE StoryItemsFrom(_, _, _)
StoryItemsFrom(st, nodes, acc) ==
    LET Next(o) ==
            IF ~IsOk(o.res) THEN [acc EXCEPT !.res = o.res]
            ELSE StoryItemsFrom(st, Tail(nodes),
                     [items |-> Append(acc.items, StoryItemInit(Head(nodes), o.res.val)),
                      profiles |-> o.profiles, res |-> acc.res])
    IN  IF Len(nodes) = 0 THEN acc ELSE Next(StoryOwnerProfileNew(st, acc.profiles))

\* Story.get_items, consumed to its end, with the instances it constructs
StoryGetItemsNew(st, heap) ==
    StoryItemsFrom(st, st.node.items, [items |-> <<>>, profiles |-> heap, res |-> Ok(PyNone)])

\* Story.itemcount
StoryItemcount(st) == Len(st.node.items)

\* StoryItem.owner_profile of an item that was given its owner: the reference
StoryItemOwnerProfile(item) == item.owner_profile

\* the most Profile instances made by reading stories[1].owner_profile
MaxProfiles == 2
\* the most get_json('<username>/') calls within one behaviour
MaxItemFetches == 3

ItemResponses == {Ok([graphql |-> [user |-> UserFull]]), Raise("ConnectionException")}

ItemSpecInit ==
    /\ CodecIdle
    /\ built = <<>>
    /\ posts = <<>>
    /\ postFetches = NoFetches
    /\ prof = <<>>
    /\ profFetches = NoFetches
    /\ stories \in {<<StoryInit(a)>> : a \in StoryNodes}
    /\ items = <<>>
    /\ profiles = <<>>
    /\ last = NoOp

\* list(stories[1].get_items())
DoGetItems ==
    /\ items = <<>>
    /\ \E r \in {StoryGetItemsNew(stories[1], profiles)} :
           /\ items' = r.items
           /\ profiles' = r.profiles
           /\ last' = [op |-> "get_items", arg |-> <<>>, ses |-> NoSession,
                       res |-> IF IsOk(r.res) THEN Ok(Len(r.items)) ELSE r.res,
                       calls |-> NoCalls]
    /\ UNCHANGED <<stories, codecVars, ctorVars, postVars, profVars>>

\* stories[1].owner_profile
DoStoryOwnerProfile ==
    /\ Len(profiles) < MaxProfiles + Len(items)
    /\ \E r \in {StoryOwnerProfileNew(stories[1], profiles)} :
           /\ profiles' = r.profiles
           /\ last' = [op |-> "owner_profile", arg |-> <<>>, ses |-> NoSession,
                       res |-> r.res, calls |-> NoCalls]
    /\ UNCHANGED <<stories, items, codecVars, ctorVars, postVars, profVars>>

\* items[i].owner_profile.biography
DoItemOwnerField(i, resp) ==
    /\ i \in 1..Len(items)
    /\ profFetches.issued < MaxItemFetches
    /\ \E r \in {ProfileMetadata(profiles[StoryItemOwnerProfile(items[i])],
                                  <<"biography">>, resp)} :
           /\ profiles' = [profiles EXCEPT ![StoryItemOwnerProfile(items[i])] = r.prof]
           /\ profFetches' = Fetched(profFetches, r.fetched, resp)
           /\ last' = [op |-> "item_owner_field", arg |-> <<i>>,
                       ses |-> Session(FALSE, NoSession.query, NoSession.page, resp),
                       res |-> r.res,
                       calls |-> [NoCalls EXCEPT !.profile_fetches = r.fetched]]
    /\ UNCHANGED <<stories, items, prof, codecVars, ctorVars, postVars>>

ItemNext ==
    \/ DoGetItems
    \/ DoStoryOwnerProfile
    \/ \E i \in 1..MaxItems, resp \in ItemResponses : DoItemOwnerField(i, resp)

SpecItems == ItemSpecInit /\ [][ItemNext]_vars

\* C20: all StoryItems that one Story.get_items() call produces share one owner
\* view: they hold the same Profile instance, which is also the instance that
\* Story.owner_profile returns on every access, so that a field of the owner
\* fetched through one item is not fetched again through another; the items
\* come in the record's order, and their number is Story.itemcount.
C20_ItemsShareOwner ==
    /\ last.op = "get_items" =>
           /\ Len(items) = StoryItemcount(stories[1])
           /\ \A i \in 1..Len(items) : items[i].node = stories[1].node.items[i]
    /\ \A i, j \in 1..Len(items) :
           StoryItemOwnerProfile(items[i]) = StoryItemOwnerProfile(items[j])
    /\ (last.op = "owner_profile" /\ Len(items) > 0) =>
           last.res = Ok(StoryItemOwnerProfile(items[1]))
    /\ profFetches.answered <= 1


\* ------------------------------------------------------------- story claims
\* the item ids of a story record, as integers, in the record's order
ItemIdsOf(node) == [k \in 1..Len(node.items) |-> ToInt(node.items[k].id)]
\* the ways to order n things
Orders(n) == {p \in [1..n -> 1..n] : \A a, b \in 1..n : p[a] = p[b] => a = b}
\* the text the claim gives: the owner's id, then the item ids in the order p
IdText(node, p) ==
    Str(ToInt(node.user.id)) \o
        StrJoin([k \in 1..Len(node.items) |-> Str(ItemIdsOf(node)[p[k]])])
Ascending(node, p) ==
    \A k \in 1..(Len(node.items) - 1) : ItemIdsOf(node)[p[k]] <= ItemIdsOf(node)[p[k + 1]]

\* C7: Story.unique_id is the decimal text of the owner's numeric id followed by
\* the decimal text of every item id in ascending order, with no separator, so
\* it is the same for any order of the items of one owner and item-id set
\* (owner 42 with items 5,3,9 or 9,5,3 gives "42359"); it is computed on the
\* first access, and every access returns the value then kept.
C7_UniqueId ==
    /\ \A i \in 1..2 :
          (stories[i].unique_id # PyNone /\ Has(stories[i].node.user, "id")) =>
              \E p \in Orders(Len(stories[i].node.items)) :
                  /\ Ascending(stories[i].node, p)
                  /\ stories[i].unique_id = PyStr(IdText(stories[i].node, p))
    /\ \A i \in 1..2 :
          (/\ stories[i].unique_id # PyNone
           /\ Has(stories[i].node.user, "id")
           /\ ToInt(stories[i].node.user.id) = 42
           /\ {ItemIdsOf(stories[i].node)[k] : k \in 1..Len(stories[i].node.items)} = {3, 5, 9}
           /\ Len(stories[i].node.items) = 3)
              => stories[i].unique_id = PyStr(<<4, 2, 3, 5, 9>>)
    /\ (last.op = "unique_id" /\ IsOk(last.res)) =>
          /\ stories[last.arg[1]].unique_id # PyNone
          /\ last.res.val = stories[last.arg[1]].unique_id

\* owner 42 with the items 5,3,9 and owner 42 with the items 9,5,3 both got
\* "42359", and the last access returned it
C7_Witness ==
    /\ ItemIdsOf(stories[1].node) = <<5, 3, 9>>
    /\ ItemIdsOf(stories[2].node) = <<9, 5, 3>>
    /\ stories[1].unique_id = PyStr(<<4, 2, 3, 5, 9>>)
    /\ stories[2].unique_id = PyStr(<<4, 2, 3, 5, 9>>)
    /\ last.op = "unique_id"
    /\ last.res = Ok(PyStr(<<4, 2, 3, 5, 9>>))

\* C8: two Story instances compare equal if and only if they have the same
\* owner id and the same set of item ids.
C8_StoryEqualityIff ==
    (/\ last.op = "__eq__"
     /\ IsOk(last.res)
     /\ Has(stories[1].node.user, "id")
     /\ Has(stories[2].node.user, "id"))
        => last.res.val =
              (/\ ToInt(stories[1].node.user.id) = ToInt(stories[2].node.user.id)
               /\ {ItemIdsOf(stories[1].node)[k] : k \in 1..Len(stories[1].node.items)}
                    = {ItemIdsOf(stories[2].node)[k] : k \in 1..Len(stories[2].node.items)})

\* C23: Story hash is consistent with Story equality in every reachable state:
\* whenever two Story instances compare equal their hashes are equal, whether or
\* not unique_id has already been accessed on either of them, and the hash of
\* one Story instance is the same before and after its unique_id is first
\* computed. Stated step by step: two Stories whose hashes were just taken and
\* that then compare equal had equal hashes; and a Story whose unique_id is
\* computed for the first time hashes afterwards as it hashed before.
C23_HashConsistent ==
    [][/\ (/\ last.op = "__hash__"
           /\ last'.op = "__eq__"
           /\ last'.res = Ok(TRUE)) => last.res.val[1] = last.res.val[2]
       /\ (/\ last'.op = "unique_id"
           /\ IsOk(last'.res)
           /\ stories[last'.arg[1]].unique_id = PyNone) =>
               StoryHash(stories'[last'.arg[1]]) = StoryHash(stories[last'.arg[1]])]_vars

\* ------------------------------------------------------------ codec claims
Range(s) == {s[i] : i \in 1..Len(s)}

\* C5 as stated: for every short code c over the base64url alphabet with at
\* most 11 characters whose first character is not the padding character 'A',
\* mediaid_to_shortcode(shortcode_to_mediaid(c)) returns c and no step raises;
\* shortcode_to_mediaid("B") = 1 and mediaid_to_shortcode(1) = "B".
C5_RoundTripAsStated ==
    /\ (Len(code) <= 11 /\ (Len(code) = 0 \/ code[1] # PadChar) /\ rt # NoResult)
          => rt = Ok(code)
    /\ (code = <<1>> /\ sm # NoResult) => sm = Ok(<<1>>)
    /\ (mediaid = <<1>> /\ ms # NoResult) => ms = Ok(<<1>>)

\* C5 amended: the round trip returns c for every short code c over the
\* base64url alphabet whose first character is not 'A' and whose value is below
\* 2^64, that is a code of at most 10 characters, or of 11 characters whose first
\* character is one of 'B'..'P' (index 1..15); an 11-character code whose first
\* character is 'Q' or later decodes to an integer of more than 64 bits, which
\* mediaid_to_shortcode refuses with InvalidArgumentException.
\* shortcode_to_mediaid("B") = 1 and mediaid_to_shortcode(1) = "B".
C5_RoundTrip ==
    /\ (/\ Len(code) <= 11
        /\ Len(code) = 0 \/ code[1] # PadChar
        /\ Len(code) = 11 => code[1] < 16
        /\ rt # NoResult)
          => rt = Ok(code)
    /\ (/\ Len(code) = 11
        /\ code[1] >= 16
        /\ rt # NoResult)
          => rt = Raise("InvalidArgumentException")
    /\ (code = <<1>> /\ sm # NoResult) => sm = Ok(<<1>>)
    /\ (mediaid = <<1>> /\ ms # NoResult) => ms = Ok(<<1>>)

\* an 11-character code led by 'P', with an 'A' inside it, came back unchanged
C5_Witness ==
    /\ Len(code) = 11
    /\ code[1] = 15
    /\ PadChar \in Range(code)
    /\ rt = Ok(code)

\* C6: shortcode_to_mediaid raises InvalidArgumentException for every code of
\* more than 11 characters, and mediaid_to_shortcode raises it for every
\* non-negative integer of more than 64 bits (2^64 and above: nine bytes or
\* more); neither returns a value then.
C6_ArgumentValidation ==
    /\ (Len(code) > 11 /\ sm # NoResult) => sm = Raise("InvalidArgumentException")
    /\ (Len(mediaid) > 8 /\ ms # NoResult) => ms = Raise("InvalidArgumentException")

\* a 12-character code and the integer 2^64 were both refused
C6_Witness ==
    /\ Len(code) = 12
    /\ sm = Raise("InvalidArgumentException")
    /\ mediaid = <<1>> \o Repeat(0, 8)
    /\ ms = Raise("InvalidArgumentException")

\* C24: inverse codec round trip: for every integer id with 0 <= id < 2^64
\* (at most eight bytes), mediaid_to_shortcode(id) returns a code of at most 11
\* characters that does not start with the padding character 'A', and
\* shortcode_to_mediaid(mediaid_to_shortcode(id)) = id; only leading padding
\* characters are removed by mediaid_to_shortcode, interior and trailing ones
\* are kept: the code, padded with 'A' on the left to twelve characters, is the
\* base64 text of the nine bytes of id.
C24_InverseRoundTrip ==
    /\ (Len(mediaid) <= 8 /\ ms # NoResult) =>
          /\ IsOk(ms)
          /\ Len(ms.val) <= 11
          /\ Len(ms.val) = 0 \/ ms.val[1] # PadChar
          /\ Repeat(PadChar, PaddedLen - Len(ms.val)) \o ms.val
                = B64Encode(IntToBytes(mediaid, IdBytes))
    /\ (Len(mediaid) <= 8 /\ inv # NoResult) => inv = Ok(mediaid)

\* 2^63 gave the 11-character code "IAAAAAAAAAA", whose 'A's inside and at the
\* end were kept, and the code gave 2^63 back
C24_Witness ==
    /\ mediaid = <<128>> \o Repeat(0, 7)
    /\ ms = Ok(<<8>> \o Repeat(PadChar, 10))
    /\ inv = Ok(mediaid)

\* 0 gave the empty code, and the empty code gave 0 back
C24_WitnessZero ==
    /\ mediaid = <<>>
    /\ ms = Ok(<<>>)
    /\ inv = Ok(<<>>)

\* ===================== STORYITEM OWNER: THE STATE MACHINE ==================
\* StoryItem.owner_profile. Gives the StoryItem afterwards, the result, and the
\* number of calls of each kind that Profile.from_id made.
StoryItemResolveOwner(item, ses) ==
    LET ById(r) ==
            [item |-> IF IsOk(r.res) THEN [item EXCEPT !.owner_profile = r.res.val] ELSE item,
             res |-> r.res, queries |-> r.queries, post_fetches |-> r.post_fetches,
             profile_fetches |-> r.profile_fetches]
    IN  IF TruthyObj(item.owner_profile)
        THEN [item |-> item, res |-> Ok(item.owner_profile), queries |-> 0,
              post_fetches |-> 0, profile_fetches |-> 0]
        ELSE ById(ProfileFromId(item.node.owner.id, ses))

\* StoryItem.owner_username and StoryItem.owner_id: self.owner_profile, then the
\* property of that Profile (username or userid), which may fetch the profile page
StoryItemOwnerField(item, name, ses) ==
    LET Read(o, m) ==
            [item |-> [o.item EXCEPT !.owner_profile = m.prof], res |-> m.res,
             queries |-> o.queries, post_fetches |-> o.post_fetches,
             profile_fetches |-> o.profile_fetches + m.fetched]
        Of(o) == IF ~IsOk(o.res) THEN o
                 ELSE IF name = "username" THEN Read(o, ProfileUsername(o.res.val, ses.user))
                 ELSE Read(o, ProfileUserid(o.res.val, ses.user))
    IN  Of(StoryItemResolveOwner(item, ses))

\* StoryItem.owner_username
StoryItemOwnerUsername(item, ses) == StoryItemOwnerField(item, "username", ses)

\* StoryItem.owner_id
StoryItemOwnerId(item, ses) == StoryItemOwnerField(item, "userid", ses)

\* the record of a story item that names its owner by id
OwnedItemNode == [id |-> PyStr(<<3>>), owner |-> [id |-> PyStr(<<4, 2>>)]]
\* the owner_profile a StoryItem is constructed with: none, or the Story's
SuppliedOwners == {PyNone, ProfileInit(UserFull).val, ProfileInit([username |-> "alice"]).val}

OwnerSpecInit ==
    /\ CodecIdle
    /\ built = <<>>
    /\ posts = <<>>
    /\ postFetches = NoFetches
    /\ prof = <<>>
    /\ profFetches = NoFetches
    /\ stories = <<>>
    /\ items \in {<<StoryItemInit(OwnedItemNode, o)>> : o \in SuppliedOwners}
    /\ profiles = <<>>
    /\ last = NoOp

\* the calls an access to the owner made
OwnerCalls(r) ==
    [queries |-> r.queries, post_fetches |-> r.post_fetches,
     profile_fetches |-> r.profile_fetches]

\* items[1].owner_profile
DoItemOwnerProfile(ses) ==
    /\ \E r \in {StoryItemResolveOwner(items[1], ses)} :
           /\ items' = [items EXCEPT ![1] = r.item]
           /\ last' = [op |-> "owner_profile", arg |-> <<items[1]>>, ses |-> ses,
                       res |-> r.res, calls |-> OwnerCalls(r)]
    /\ UNCHANGED <<stories, profiles, codecVars, ctorVars, postVars, profVars>>

\* items[1].owner_username
DoItemOwnerUsername(ses) ==
    /\ \E r \in {StoryItemOwnerUsername(items[1], ses)} :
           /\ items' = [items EXCEPT ![1] = r.item]
           /\ last' = [op |-> "owner_username", arg |-> <<items[1]>>, ses |-> ses,
                       res |-> r.res, calls |-> OwnerCalls(r)]
    /\ UNCHANGED <<stories, profiles, codecVars, ctorVars, postVars, profVars>>

\* items[1].owner_id
DoItemOwnerId(ses) ==
    /\ \E r \in {StoryItemOwnerId(items[1], ses)} :
           /\ items' = [items EXCEPT ![1] = r.item]
           /\ last' = [op |-> "owner_id", arg |-> <<items[1]>>, ses |-> ses,
                       res |-> r.res, calls |-> OwnerCalls(r)]
    /\ UNCHANGED <<stories, profiles, codecVars, ctorVars, postVars, profVars>>

OwnerNext ==
    \/ \E ses \in Sessions : DoItemOwnerProfile(ses)
    \/ \E ses \in Sessions : DoItemOwnerUsername(ses)
    \/ \E ses \in Sessions : DoItemOwnerId(ses)

SpecItemOwner == OwnerSpecInit /\ [][OwnerNext]_vars

\* -------------------------------------------------------- item owner claims
\* a session on which Profile.from_id has what it needs: logged in, the query
\* answered with a user whose edge list is not empty, the post page served
Resolvable(ses) ==
    /\ ses.is_logged_in
    /\ IsOk(ses.query)
    /\ Truthy(ses.query.val.data.user)
    /\ Len(ses.query.val.data.user.edge_owner_to_timeline_media.edges) > 0
    /\ IsOk(ses.page)
    /\ IsOk(ses.user)

\* C22: StoryItem.owner_profile never performs a numeric-id lookup
\* (Profile.from_id) when an owner Profile was given at construction; when none
\* was given it performs the lookup on the first access only, and later
\* accesses (owner_profile, owner_username, owner_id) reuse the memoized Profile.
\* Stated step by step: an access to an item that holds its owner makes no
\* query; and after an access that made the lookup on a session that serves
\* all it asks for, the next access makes no query.
C22_OwnerLookupOnce ==
    [][/\ (last'.op \in {"owner_profile", "owner_username", "owner_id"}
            /\ items[1].owner_profile # PyNone) =>
               /\ last'.calls.queries = 0
               /\ last'.calls.post_fetches = 0
       /\ (/\ last.op \in {"owner_profile", "owner_username", "owner_id"}
           /\ last.calls.queries > 0
           /\ Resolvable(last.ses)
           /\ last'.op \in {"owner_profile", "owner_username", "owner_id"}) =>
               last'.calls.queries = 0]_vars

=============================================================================
